---- MODULE Spec2Model ----
(***************************************************************************)
(* Verification model of ComfyUI-SuperSuger: the mixed-radix addresser,    *)
(* the template validators, the exhaustive prompt combinator and its       *)
(* persisted stepping state, the generic auto-queue step and the           *)
(* auto-queue loop controller.                                             *)
(*                                                                         *)
(* Text model.  A string is a sequence of tokens; a token is a literal     *)
(* word, a blank, or an anchor "[n]".  A multi-line text is the sequence   *)
(* of its lines (what str.split('\n') returns, so it always has at least   *)
(* one line).  An md5 digest is modelled by the string it digests (md5 is  *)
(* taken to be collision free), and that string by the tuple of the        *)
(* fields it concatenates.                                                 *)
(***************************************************************************)
EXTENDS Integers, Sequences, FiniteSets, TLC

VARIABLES
    node,        \* which component this behaviour exercises
    radix_in,    \* MixedRadix: the arguments drawn for the pure function
    radix_out,   \* MixedRadix: the result of the last application
    val_in,      \* validators: the template and the pool inputs (kwargs) drawn
    val_out,     \* validators: the result of the last validation
    epc_state,   \* ExhaustivePromptCombinator: self.state, the record in memory
    epc_file,    \* ExhaustivePromptCombinator: exhaustive_state.json on disk
    epc_out,     \* ExhaustivePromptCombinator: inputs and result of the last execute
    aq_server,   \* AutoQueueLoopController: PROMPT_SERVER_AVAILABLE of the module
    aq_file,     \* AutoQueueLoopController: custom_nodes/auto_queue_state.json
    aq_out,      \* AutoQueueLoopController: inputs and result of the last execute
    pq_state,    \* StateManager.state of the manager handed to process_queue
    pq_file,     \* StateManager.state_file on disk
    pq_out,      \* ComfyUIAutoQueue: arguments and result of the last process_queue
    host_in,     \* host: the call it made last, its arguments, and how send_sync behaved
    ic_out,      \* host: what the last IS_CHANGED / check_change returned
    pc,          \* host: the execution under way and its position, when it is followed step by step
    sig          \* frontend: the "exhaustive-add-queue" signals sent and not yet answered

radix_vars == <<radix_in, radix_out>>
val_vars == <<val_in, val_out>>
epc_vars == <<epc_state, epc_file, epc_out>>
aq_vars == <<aq_server, aq_file, aq_out>>
pq_vars == <<pq_state, pq_file, pq_out>>
host_vars == <<host_in, ic_out>>
order_vars == <<pc, sig>>
vars == <<node, radix_vars, val_vars, epc_vars, aq_vars, pq_vars, host_vars, order_vars>>

\* ------------------------------------------------------------------------
\* Bounds of the model
\* ------------------------------------------------------------------------
MaxRadixPools == 3
MaxRadixSize == 3
MaxSlots == 2          \* pool inputs the drawn workflows connect (pool_1..pool_MaxSlots)
MaxStart == 1          \* start_index is drawn from 0..MaxStart
MaxCombos == 2         \* max_combinations is drawn from 0..MaxCombos
MaxList == 2           \* COMBO_LIST has up to MaxList prompts; counts are drawn from 0..MaxList
MaxLimit == 2          \* MAX_ITERATION_LIMIT is drawn from 1..MaxLimit
MaxPromptStart == 3    \* SpecPrompt draws start_index from 0..MaxPromptStart
MaxItems == 4          \* the dictionaries hashed have up to MaxItems items

\* ------------------------------------------------------------------------
\* Program constants
\* ------------------------------------------------------------------------
PoolSlots == 15        \* pool_1 .. pool_15

\* ------------------------------------------------------------------------
\* Generic helpers
\* ------------------------------------------------------------------------
Reverse(s) == [i \in 1..Len(s) |-> s[Len(s) + 1 - i]]

RECURSIVE Prod(_)
Prod(s) == IF s = <<>> THEN 1 ELSE Head(s) * Prod(Tail(s))

Min(a, b) == IF a < b THEN a ELSE b

SeqsUpTo(S, n) == UNION {[1..k -> S] : k \in 0..n}

RECURSIVE SortSet(_)
SortSet(S) ==
    IF S = {} THEN <<>>
    ELSE LET m == CHOOSE x \in S : \A y \in S : x <= y
         IN <<m>> \o SortSet(S \ {m})

SetMax(S) == CHOOSE x \in S : \A y \in S : y <= x

\* ------------------------------------------------------------------------
\* Text model
\* ------------------------------------------------------------------------
Lit(w) == [a |-> -1, w |-> w]        \* a literal word
Anchor(n) == [a |-> n, w |-> ""]     \* the placeholder "[n]"
Blank == Lit(" ")                    \* white space
Esc(c) == [a |-> -2, w |-> c]        \* a backslash followed by the character c
IsAnchor(t) == t.a >= 0

EmptyText == << <<>> >>              \* "" : one empty line

\* str.strip() of one line
RECURSIVE LStrip(_)
LStrip(line) ==
    IF line # <<>> /\ Head(line) = Blank THEN LStrip(Tail(line)) ELSE line

Strip(line) == Reverse(LStrip(Reverse(LStrip(line))))

\* str.strip() of a whole text is empty iff every line is white space
TextIsBlank(text) == \A i \in 1..Len(text) : Strip(text[i]) = <<>>

\* [line.strip() for line in text.split('\n') if line.strip()]
RECURSIVE ParseLines(_)
ParseLines(text) ==
    IF text = <<>> THEN <<>>
    ELSE IF Strip(Head(text)) = <<>> THEN ParseLines(Tail(text))
         ELSE <<Strip(Head(text))>> \o ParseLines(Tail(text))

\* re.findall(r"\[(\d+)\]", template), as numbers, in order of occurrence
RECURSIVE FindAnchors(_)
FindAnchors(template) ==
    IF template = <<>> THEN <<>>
    ELSE IF IsAnchor(Head(template))
         THEN <<Head(template).a>> \o FindAnchors(Tail(template))
         ELSE FindAnchors(Tail(template))

SeqToSet(q) == {q[i] : i \in 1..Len(q)}

\* sorted(list(set(map(int, findall))))
SortedAnchors(template) == SortSet(SeqToSet(FindAnchors(template)))

\* Idle values of the variables a behaviour does not exercise
NoRadixIn == [global_index |-> 0, pool_sizes |-> <<>>]
NoRadixOut == [fn |-> "none", indices |-> <<>>]
NoValIn == [template |-> <<>>, kwargs |-> <<>>]
NoValOut == [fn |-> "none", raised |-> "none", anchor |-> 0,
             valid_pools |-> <<>>, used |-> <<>>,
             combo_list |-> <<>>, total_count |-> 0, config_hash |-> <<>>]
NoHash == <<>>                       \* the empty last_input_hash ""
DefaultState == [global_index |-> 0, last_input_hash |-> NoHash, is_completed |-> FALSE]
\* A state file: whether it exists, whether open and json.load succeed on
\* it, and the record json.load gives.  rec of a file that is not there is
\* the default; rec of a file that cannot be read is no record of the program
\* (index -1), so a load that handed it on would show.
NoFile == [exists |-> FALSE, readable |-> FALSE, rec |-> DefaultState]
UnreadableFile ==
    [exists |-> TRUE, readable |-> FALSE, rec |-> [DefaultState EXCEPT !.global_index = -1]]
\* What the loader finds at the path of the state file
Storage(file) ==
    IF ~file.exists THEN "missing" ELSE IF ~file.readable THEN "unreadable" ELSE "loaded"
NoHostIn == [fn |-> "none", args |-> <<>>, delivery |-> "ok", storage |-> "none"]
NoIcOut == [fn |-> "none", nan |-> FALSE, value |-> <<>>]
\* No execution under way: position 0
NoCall == [pos |-> 0, order |-> <<>>, r |-> <<>>]
HostIdle == host_in = NoHostIn /\ ic_out = NoIcOut /\ pc = NoCall /\ sig = <<>>
NoEpcOut == [tick |-> 0, path |-> "none", prompt |-> <<>>, log |-> "none",
             ret_len |-> 0, index |-> 0, total |-> 0, space |-> 0,
             queued |-> FALSE, writes |-> 0,
             hash |-> NoHash, start_index |-> 0, auto_queue |-> FALSE,
             completed |-> FALSE, soft_reset |-> FALSE, sizes |-> <<>>]
RadixIdle == radix_in = NoRadixIn /\ radix_out = NoRadixOut
ValIdle == val_in = NoValIn /\ val_out = NoValOut
EpcIdle == epc_state = DefaultState /\ epc_file = NoFile /\ epc_out = NoEpcOut

\* AutoQueueLoopController._load_state: default_state
AQ_default_state ==
    [global_index |-> 0, last_input_hash |-> "", is_completed |-> FALSE,
     workflow_started |-> FALSE, last_mode |-> "", last_start_index |-> -1]

NoAqFile == [exists |-> FALSE, readable |-> FALSE, rec |-> AQ_default_state]
UnreadableAqFile ==
    [exists |-> TRUE, readable |-> FALSE, rec |-> [AQ_default_state EXCEPT !.global_index = -1]]

NoAqOut ==
    [tick |-> 0, path |-> "none", prompt |-> <<>>, index |-> 0, limit |-> 0,
     should_continue |-> FALSE, feedback |-> FALSE, queued |-> FALSE,
     written |-> <<>>, list_len |-> 0, log |-> "none"]

NoPqOut ==
    [tick |-> 0, path |-> "none", done |-> FALSE, next_index |-> 0,
     queued |-> FALSE, widget |-> FALSE, writes |-> 0,
     current_index |-> 0, total_items |-> 0, auto_queue |-> FALSE]

AqIdle == aq_server = FALSE /\ aq_file = NoAqFile /\ aq_out = NoAqOut
PqIdle == pq_state = DefaultState /\ pq_file = NoFile /\ pq_out = NoPqOut

\* ------------------------------------------------------------------------
\* libs/cartesian.py
\* ------------------------------------------------------------------------
calculate_total_combinations(pool_sizes) ==
    IF pool_sizes = <<>> THEN 1 ELSE Prod(pool_sizes)

\* The digit loop of get_mixed_radix_indices: sizes are visited from the
\* last to the first, a size of 0 is skipped (no digit is appended).
RECURSIVE RadixLoop(_, _, _, _)
RadixLoop(current_index, pool_sizes, k, local_indices) ==
    IF k = 0 THEN local_indices
    ELSE IF pool_sizes[k] = 0
         THEN RadixLoop(current_index, pool_sizes, k - 1, local_indices)
         ELSE RadixLoop(current_index \div pool_sizes[k], pool_sizes, k - 1,
                        Append(local_indices, current_index % pool_sizes[k]))

RadixNoReverse(global_index, pool_sizes) ==
    IF pool_sizes = <<>> THEN <<>>
    ELSE RadixLoop(global_index, pool_sizes, Len(pool_sizes), <<>>)

get_mixed_radix_indices(global_index, pool_sizes) ==
    IF pool_sizes = <<>> THEN <<>>
    ELSE Reverse(RadixLoop(global_index, pool_sizes, Len(pool_sizes), <<>>))

\* nodes/prompt_combinator.py keeps its own copy of the same routine.
RECURSIVE EPC_RadixLoop(_, _, _, _)
EPC_RadixLoop(current_index, pool_sizes, k, local_indices) ==
    IF k = 0 THEN local_indices
    ELSE IF pool_sizes[k] = 0
         THEN EPC_RadixLoop(current_index, pool_sizes, k - 1, local_indices)
         ELSE EPC_RadixLoop(current_index \div pool_sizes[k], pool_sizes, k - 1,
                            Append(local_indices, current_index % pool_sizes[k]))

EPC_RadixWrongRadix(global_index, pool_sizes) ==
    IF pool_sizes = <<>> THEN <<>>
    ELSE Reverse(EPC_RadixLoop(global_index, Reverse(pool_sizes), Len(pool_sizes), <<>>))

EPC_get_mixed_radix_indices(global_index, pool_sizes) ==
    IF pool_sizes = <<>> THEN <<>>
    ELSE Reverse(EPC_RadixLoop(global_index, pool_sizes, Len(pool_sizes), <<>>))

\* ------------------------------------------------------------------------
\* Specification SpecRadix: the addresser applied to drawn arguments
\* ------------------------------------------------------------------------
RadixSizes == SeqsUpTo(0..MaxRadixSize, MaxRadixPools)

InitRadix ==
    /\ node = "radix"
    /\ \E sizes \in RadixSizes :
         \E g \in 0..Prod(sizes) :
            radix_in = [global_index |-> g, pool_sizes |-> sizes]
    /\ radix_out = NoRadixOut
    /\ ValIdle /\ EpcIdle /\ AqIdle /\ PqIdle /\ HostIdle

\* cartesian.get_mixed_radix_indices(global_index, pool_sizes)
RadixLib ==
    /\ node = "radix"
    /\ radix_out' = [fn |-> "lib",
                     indices |-> get_mixed_radix_indices(radix_in.global_index,
                                                         radix_in.pool_sizes)]
    /\ UNCHANGED <<node, order_vars, host_vars, radix_in, val_vars, epc_vars, aq_vars, pq_vars>>

\* ExhaustivePromptCombinator._get_mixed_radix_indices(global_index, pool_sizes)
RadixEpc ==
    /\ node = "radix"
    /\ radix_out' = [fn |-> "epc",
                     indices |-> EPC_get_mixed_radix_indices(radix_in.global_index,
                                                             radix_in.pool_sizes)]
    /\ UNCHANGED <<node, order_vars, host_vars, radix_in, val_vars, epc_vars, aq_vars, pq_vars>>

NextRadix == RadixLib \/ RadixEpc

SpecRadix == InitRadix /\ [][NextRadix]_vars

\* ------------------------------------------------------------------------
\* Claims about the addresser
\* ------------------------------------------------------------------------
RadixApplied == radix_out.fn # "none"
RadixPositive == \A i \in 1..Len(radix_in.pool_sizes) : radix_in.pool_sizes[i] >= 1
RadixInRange ==
    radix_in.global_index < calculate_total_combinations(radix_in.pool_sizes)

\* sum over i of l_i * (s_{i+1} * ... * s_k)
RECURSIVE Recompose(_, _)
Recompose(l, s) ==
    IF l = <<>> THEN 0
    ELSE Head(l) * Prod(Tail(s)) + Recompose(Tail(l), Tail(s))

\* C7: for positive pool sizes and an index inside the space, recomposing the
\* digits returned by get_mixed_radix_indices (either copy), each weighted by
\* the product of the sizes to its right, gives the global index back.
C7_RoundTrip ==
    (RadixApplied /\ RadixPositive /\ RadixInRange)
        => /\ Len(radix_out.indices) = Len(radix_in.pool_sizes)
           /\ Recompose(radix_out.indices, radix_in.pool_sizes) = radix_in.global_index

C7_Witness ==
    /\ RadixApplied /\ RadixPositive /\ RadixInRange
    /\ Len(radix_in.pool_sizes) = 3
    /\ radix_in.global_index = 17

RadixBy(fn, global_index, pool_sizes) ==
    IF fn = "lib" THEN get_mixed_radix_indices(global_index, pool_sizes)
    ELSE EPC_get_mixed_radix_indices(global_index, pool_sizes)

\* The local-index vectors [0,s_1) x ... x [0,s_k)
LocalVectors(s) ==
    {v \in [1..Len(s) -> 0..MaxRadixSize] : \A i \in 1..Len(s) : v[i] < s[i]}

\* The table of the 2-pool example: sizes [2,3], indices 0..5.
Example23 == <<(<<0, 0>>), (<<0, 1>>), (<<0, 2>>), (<<1, 0>>), (<<1, 1>>), (<<1, 2>>)>>

\* C8: for positive sizes get_mixed_radix_indices is a bijection from
\* [0, s_1*...*s_k) onto [0,s_1) x ... x [0,s_k): the result has k entries,
\* entry i is below s_i, no other in-range index gives the same vector, every
\* vector is the image of an in-range index (its recomposition), and the first
\* pool varies slowest (sizes [2,3] give (0,0),(0,1),(0,2),(1,0),(1,1),(1,2)).
C8_Bijection ==
    (RadixApplied /\ RadixPositive /\ RadixInRange) =>
        LET s == radix_in.pool_sizes
            g == radix_in.global_index
            l == radix_out.indices
            total == calculate_total_combinations(s)
        IN /\ Len(l) = Len(s)
           /\ \A i \in 1..Len(s) : 0 <= l[i] /\ l[i] < s[i]
           /\ \A g2 \in 0..(total - 1) :
                 g2 # g => RadixBy(radix_out.fn, g2, s) # l
           /\ \A v \in LocalVectors(s) :
                 /\ Recompose(v, s) \in 0..(total - 1)
                 /\ RadixBy(radix_out.fn, Recompose(v, s), s) = v
           /\ s = <<2, 3>> => l = Example23[g + 1]

C8_Witness ==
    /\ radix_out.fn = "epc"
    /\ radix_in.pool_sizes = <<2, 3>>
    /\ radix_in.global_index = 4
    /\ radix_out.indices = <<1, 1>>

\* ------------------------------------------------------------------------
\* Template validation: libs/template_processor.py,
\* nodes/prompt_combinator.py, nodes/prompt_combination_generator.py
\* ------------------------------------------------------------------------
ValOk(valid_pools, used) ==
    [raised |-> "none", anchor |-> 0, valid_pools |-> valid_pools, used |-> used]
ValRaise(kind, n) ==
    [raised |-> kind, anchor |-> n, valid_pools |-> <<>>, used |-> <<>>]

\* dict.get(f"pool_{i}_text", ""), the dict holding pool_1_text..pool_15_text
PoolTextGet(pool_texts, i) ==
    IF i \in DOMAIN pool_texts THEN pool_texts[i] ELSE EmptyText

\* TemplateProcessor._parse_pool_text
TP_parse_pool_text(pool_text) == ParseLines(pool_text)

\* TemplateProcessor.parse_and_validate_template: for i in range(1, max_anchor + 1)
RECURSIVE TP_ValidateLoop(_, _, _, _, _, _)
TP_ValidateLoop(i, max_anchor, anchors, pool_data, valid_pools, used) ==
    IF i > max_anchor THEN ValOk(valid_pools, used)
    ELSE LET pool_list == TP_parse_pool_text(PoolTextGet(pool_data, i))
         IN IF i \in SeqToSet(anchors)
            THEN IF pool_list = <<>>
                 THEN ValRaise("ValueError", i)
                 ELSE TP_ValidateLoop(i + 1, max_anchor, anchors, pool_data,
                                      Append(valid_pools, pool_list), Append(used, i))
            ELSE TP_ValidateLoop(i + 1, max_anchor, anchors, pool_data,
                                 valid_pools, used)

TP_parse_and_validate_template(template_text, pool_data) ==
    LET anchors == SortedAnchors(template_text)
    IN IF anchors = <<>> THEN ValOk(<< <<>> >>, <<>>)
       ELSE TP_ValidateLoop(1, SetMax(SeqToSet(anchors)), anchors, pool_data,
                            <<>>, <<>>)

\* ExhaustivePromptCombinator._parse_and_validate_template: the loop
RECURSIVE EPC_ValidateLoop(_, _, _, _, _, _)
EPC_ValidateLoop(i, max_anchor, anchors, pool_texts, valid_pools, used) ==
    IF i > max_anchor THEN ValOk(valid_pools, used)
    ELSE LET pool_list == ParseLines(PoolTextGet(pool_texts, i))
         IN IF i \in SeqToSet(anchors)
            THEN IF pool_list = <<>>
                 THEN ValRaise("ValueError", i)
                 ELSE EPC_ValidateLoop(i + 1, max_anchor, anchors, pool_texts,
                                       Append(valid_pools, pool_list), Append(used, i))
            ELSE EPC_ValidateLoop(i + 1, max_anchor, anchors, pool_texts,
                                  valid_pools, used)

\* all_inputs as the validator reads it: the template and the pool texts
EPC_parse_and_validate_template(template_text, pool_texts) ==
    LET anchors == SortedAnchors(template_text)
    IN IF anchors = <<>> THEN ValOk(<< <<>> >>, <<>>)
       ELSE EPC_ValidateLoop(1, SetMax(SeqToSet(anchors)), anchors, pool_texts,
                             <<>>, <<>>)

\* execute: all_inputs holds kwargs.get(f"pool_{i}_text", "") for i in
\* range(1, 16).  kwargs is the dict of the connected pool inputs (a function
\* on the connected pool numbers); an entry that is "" by default is left out
\* of the modelled dict and read back as "" by PoolTextGet.
EPC_pool_texts(kwargs) ==
    [i \in (DOMAIN kwargs \cap 1..PoolSlots) |-> kwargs[i]]

\* PromptCombinationGenerator._extract_pools_from_kwargs: the loop over
\* pool_1..pool_15.  An input that is not connected (kwargs.get gives None)
\* appends nothing.
RECURSIVE PCG_ExtractLoop(_, _, _)
PCG_ExtractLoop(kwargs, i, pools) ==
    IF i > PoolSlots THEN pools
    ELSE IF i \in DOMAIN kwargs /\ ~TextIsBlank(kwargs[i])
         THEN PCG_ExtractLoop(kwargs, i + 1, Append(pools, kwargs[i]))
         ELSE IF i \in DOMAIN kwargs
              THEN PCG_ExtractLoop(kwargs, i + 1, Append(pools, EmptyText))
              ELSE PCG_ExtractLoop(kwargs, i + 1, pools)

\* while pools and not pools[-1]: pools.pop()
RECURSIVE PCG_DropTrailingEmpty(_)
PCG_DropTrailingEmpty(pools) ==
    IF pools # <<>> /\ pools[Len(pools)] = EmptyText
    THEN PCG_DropTrailingEmpty(SubSeq(pools, 1, Len(pools) - 1))
    ELSE pools

PCG_extract_pools_from_kwargs(kwargs) ==
    PCG_DropTrailingEmpty(PCG_ExtractLoop(kwargs, 1, <<>>))

\* parsed_pools: a blank pool becomes [], any other the list of its lines
PCG_parsed_pools(pools) ==
    [i \in 1..Len(pools) |->
        IF TextIsBlank(pools[i]) THEN <<>> ELSE ParseLines(pools[i])]

\* for placeholder in placeholders: index = int(placeholder) - 1; the list
\* is read with Python's indexing, where index -1 is the last element.
RECURSIVE PCG_CheckLoop(_, _)
PCG_CheckLoop(placeholders, parsed_pools) ==
    IF placeholders = <<>> THEN ValOk(parsed_pools, <<>>)
    ELSE LET n == Head(placeholders)
             index == n - 1
         IN IF index >= Len(parsed_pools) THEN ValRaise("ValueError", n)
            ELSE IF index < 0 /\ parsed_pools = <<>> THEN ValRaise("IndexError", n)
            ELSE LET pool == IF index < 0 THEN parsed_pools[Len(parsed_pools)]
                                         ELSE parsed_pools[index + 1]
                 IN IF pool = <<>> THEN ValRaise("ValueError", n)
                    ELSE PCG_CheckLoop(Tail(placeholders), parsed_pools)

PCG_parse_and_validate_input(template, pools) ==
    PCG_CheckLoop(FindAnchors(template), PCG_parsed_pools(pools))

\* _parse_and_validate_input: hash_content is the template followed by
\* "|POOL_i:" and the joined elements of every non-empty parsed pool
PCG_config_hash(template, parsed_pools) ==
    <<template,
      [i \in {j \in 1..Len(parsed_pools) : parsed_pools[j] # <<>>} |-> parsed_pools[i]]>>

\* _generate_combinations: non_empty_pools and pool_indices (i + 1 for the
\* position i of the pool in parsed_pools)
RECURSIVE PCG_pool_indices(_, _)
PCG_pool_indices(parsed_pools, i) ==
    IF i > Len(parsed_pools) THEN <<>>
    ELSE IF parsed_pools[i] # <<>>
         THEN <<i>> \o PCG_pool_indices(parsed_pools, i + 1)
         ELSE PCG_pool_indices(parsed_pools, i + 1)

\* list(itertools.product(*non_empty_pools)): the last pool varies fastest
RECURSIVE PCG_product(_)
PCG_product(pools) ==
    IF pools = <<>> THEN << <<>> >>
    ELSE LET rest == PCG_product(Tail(pools))
             h == Head(pools)
         IN [k \in 1..(Len(h) * Len(rest)) |->
                <<h[((k - 1) \div Len(rest)) + 1]>> \o rest[((k - 1) % Len(rest)) + 1]]

\* str.replace(placeholder, element): every occurrence of "[n]"
RECURSIVE ReplaceAll(_, _, _)
ReplaceAll(text, n, part) ==
    IF text = <<>> THEN <<>>
    ELSE IF Head(text) = Anchor(n) THEN part \o ReplaceAll(Tail(text), n, part)
         ELSE <<Head(text)>> \o ReplaceAll(Tail(text), n, part)

\* for pool_idx, element in zip(pool_indices, combo): result = result.replace(...)
RECURSIVE PCG_replace(_, _, _)
PCG_replace(result, pool_indices, combo) ==
    IF pool_indices = <<>> THEN result
    ELSE PCG_replace(ReplaceAll(result, Head(pool_indices), Head(combo)),
                     Tail(pool_indices), Tail(combo))

PCG_generate_combinations(template, parsed_pools) ==
    LET pool_indices == PCG_pool_indices(parsed_pools, 1)
        non_empty_pools == [k \in 1..Len(pool_indices) |-> parsed_pools[pool_indices[k]]]
        combinations == PCG_product(non_empty_pools)
    IN IF non_empty_pools = <<>> THEN <<template>>
       ELSE [c \in 1..Len(combinations) |->
                PCG_replace(template, pool_indices, combinations[c])]

\* PromptCombinationGenerator.execute.  The call of _parse_and_validate_input
\* stands in no try block: what it raises leaves execute, and nothing is
\* returned (raised names the exception).  Otherwise execute returns
\* (combo_list, len(combo_list), config_hash).
PCG_execute(template_text, kwargs) ==
    LET pools == PCG_extract_pools_from_kwargs(kwargs)
        v == PCG_parse_and_validate_input(template_text, pools)
        combo_list == PCG_generate_combinations(template_text, v.valid_pools)
    IN IF v.raised # "none"
       THEN [fn |-> "pcg_execute", raised |-> v.raised, anchor |-> v.anchor,
             valid_pools |-> <<>>, used |-> <<>>,
             combo_list |-> <<>>, total_count |-> 0, config_hash |-> <<>>]
       ELSE [fn |-> "pcg_execute", raised |-> "none", anchor |-> 0,
             valid_pools |-> v.valid_pools, used |-> <<>>,
             combo_list |-> combo_list, total_count |-> Len(combo_list),
             config_hash |-> PCG_config_hash(template_text, v.valid_pools)]

\* ------------------------------------------------------------------------
\* Specification SpecValidate: the three validators applied to drawn inputs
\* ------------------------------------------------------------------------
T_plain == <<Lit("a")>>
T_two == <<Lit("a"), Blank, Anchor(1), Blank, Lit("and"), Blank, Anchor(2)>>
T_rep == <<Anchor(1), Blank, Anchor(1)>>
T_second == <<Lit("a"), Blank, Anchor(2)>>
T_zero == <<Anchor(0)>>

TextCatDog == << <<Lit("cat")>>, <<Lit("dog")>> >>
TextRedBlue == << <<Blank, Lit("red"), Blank>>, <<>>, <<Lit("blue")>> >>
TextBlank == << <<Blank>>, <<>> >>

ValTemplates == {T_plain, T_two, T_rep, T_second, T_zero}
ValTexts == {EmptyText, TextCatDog, TextRedBlue, TextBlank}

\* Workflows that connect some of pool_1..pool_MaxSlots and nothing else
KwargsOver(texts) == UNION {[D -> texts] : D \in SUBSET (1..MaxSlots)}

InitValidate ==
    /\ node = "validate"
    /\ \E t \in ValTemplates : \E kw \in KwargsOver(ValTexts) :
         val_in = [template |-> t, kwargs |-> kw]
    /\ val_out = NoValOut
    /\ RadixIdle /\ EpcIdle /\ AqIdle /\ PqIdle /\ HostIdle

WithFn(fn, r) ==
    [fn |-> fn, raised |-> r.raised, anchor |-> r.anchor,
     valid_pools |-> r.valid_pools, used |-> r.used,
     combo_list |-> <<>>, total_count |-> 0, config_hash |-> <<>>]

\* TemplateProcessor.parse_and_validate_template(template_text, pool_data),
\* pool_data holding the connected pool texts
ValidateTP ==
    /\ node = "validate"
    /\ val_out' = WithFn("tp",
          TP_parse_and_validate_template(val_in.template,
                                         EPC_pool_texts(val_in.kwargs)))
    /\ UNCHANGED <<node, order_vars, host_vars, val_in, radix_vars, epc_vars, aq_vars, pq_vars>>

\* ExhaustivePromptCombinator.execute up to the validation step
ValidateEPC ==
    /\ node = "validate"
    /\ val_out' = WithFn("epc",
          EPC_parse_and_validate_template(val_in.template,
                                          EPC_pool_texts(val_in.kwargs)))
    /\ UNCHANGED <<node, order_vars, host_vars, val_in, radix_vars, epc_vars, aq_vars, pq_vars>>

\* PromptCombinationGenerator.execute up to the validation step
ValidatePCG ==
    /\ node = "validate"
    /\ val_out' = WithFn("pcg",
          PCG_parse_and_validate_input(val_in.template,
                                       PCG_extract_pools_from_kwargs(val_in.kwargs)))
    /\ UNCHANGED <<node, order_vars, host_vars, val_in, radix_vars, epc_vars, aq_vars, pq_vars>>

\* PromptCombinationGenerator.execute(template_text, **kwargs)
PcgExecute ==
    /\ node = "validate"
    /\ val_out' = PCG_execute(val_in.template, val_in.kwargs)
    /\ UNCHANGED <<node, order_vars, host_vars, val_in, radix_vars, epc_vars, aq_vars, pq_vars>>

NextValidate == ValidateTP \/ ValidateEPC \/ ValidatePCG \/ PcgExecute

SpecValidate == InitValidate /\ [][NextValidate]_vars

\* ------------------------------------------------------------------------
\* Claims about validation
\* ------------------------------------------------------------------------
\* The anchors of a template: placeholders [n] with n a positive integer
TemplateAnchors(template) == {n \in SeqToSet(FindAnchors(template)) : n >= 1}

\* Pool n was not supplied, or parses to zero elements
PoolMissingOrEmpty(kwargs, n) ==
    \/ n \notin DOMAIN kwargs
    \/ ParseLines(kwargs[n]) = <<>>

BadAnchors(in) == {n \in TemplateAnchors(in.template) : PoolMissingOrEmpty(in.kwargs, n)}

\* C10: whenever a validator has run on a template in which some anchor [n]
\* refers to a pool that was not supplied or that parses to zero elements,
\* the validator raised the configuration error (ValueError).
C10_BadAnchorRaises ==
    (val_out.fn # "none" /\ BadAnchors(val_in) # {}) => val_out.raised = "ValueError"

\* C10 for the two validators that read pools by name
C10_NamedValidatorsRaise ==
    (val_out.fn \in {"tp", "epc"} /\ BadAnchors(val_in) # {})
        => /\ val_out.raised = "ValueError"
           /\ val_out.anchor \in BadAnchors(val_in)

\* ------------------------------------------------------------------------
\* nodes/prompt_combinator.py: ExhaustivePromptCombinator
\* ------------------------------------------------------------------------
\* _calculate_input_hash: md5 of "template|max_combinations|pool_1|...|pool_15",
\* where pool_i is all_inputs.get(f"pool_{i}_text", "").  The digested string
\* is modelled by its fields; the pools that are "" are left out of the map.
EPC_calculate_input_hash(template_text, max_combinations, pool_texts) ==
    <<template_text, max_combinations,
      [i \in {j \in DOMAIN pool_texts \cap 1..PoolSlots : pool_texts[j] # EmptyText}
          |-> pool_texts[i]]>>

\* _load_state: the record on disk, or the default record when there is no
\* file or open / json.load raises
\* A _load_state that hands back whatever an existing file holds
EPC_LoadUnchecked(file) == IF file.exists THEN file.rec ELSE DefaultState

EPC_load_state(file) ==
    IF file.exists /\ file.readable THEN file.rec ELSE DefaultState

\* _save_state: json.dump(self.state)
EPC_save_state(state) == [exists |-> TRUE, readable |-> TRUE, rec |-> state]

\* A step 1 without the soft reset
EPC_NoSoftReset(start_index, state) == FALSE

\* execute, step 1: hard reset on a changed hash, else soft reset on a
\* start_index that is neither the stored index nor 0
EPC_should_soft_reset(start_index, state) ==
    start_index # state.global_index /\ start_index # 0

\* A step 1 whose hard reset stores the new hash and keeps index and flag
EPC_ResetKeepIndex(state, current_hash, start_index) ==
    IF current_hash # state.last_input_hash
    THEN [state EXCEPT !.last_input_hash = current_hash]
    ELSE IF EPC_should_soft_reset(start_index, state)
         THEN [state EXCEPT !.global_index = start_index, !.is_completed = FALSE]
         ELSE state

EPC_reset(state, current_hash, start_index) ==
    IF current_hash # state.last_input_hash
    THEN [global_index |-> IF start_index > 0 THEN start_index ELSE 0,
          last_input_hash |-> current_hash,
          is_completed |-> FALSE]
    ELSE IF EPC_should_soft_reset(start_index, state)
         THEN [state EXCEPT !.global_index = start_index, !.is_completed = FALSE]
         ELSE state

\* execute, step 3: pool_sizes and total_combinations before the ceiling.
\* valid_pools is [[]] for a template without anchors, so pool_sizes is [0].
EPC_pool_sizes(valid_pools) == [i \in 1..Len(valid_pools) |-> Len(valid_pools[i])]

EPC_space(pool_sizes) == IF pool_sizes # <<>> THEN Prod(pool_sizes) ELSE 1

\* if max_combinations > 0 and total_combinations > max_combinations
EPC_total(space, max_combinations) ==
    IF max_combinations > 0 /\ space > max_combinations
    THEN max_combinations ELSE space

\* A step 4 that looks at the index only
EPC_ExhaustedIndexOnly(current_index, total_combinations, is_completed) ==
    current_index >= total_combinations

\* A step 4 that looks at the completion flag only
EPC_ExhaustedFlagOnly(current_index, total_combinations, is_completed) ==
    is_completed

\* execute, step 4
EPC_exhausted(current_index, total_combinations, is_completed) ==
    current_index >= total_combinations \/ is_completed

\* re.sub reads its replacement as a template: a backslash with an ASCII
\* letter that is no known escape is an error (so is a group reference, the
\* pattern having no group), whether or not the pattern matches
ReplRaises(part) == \E i \in 1..Len(part) : part[i] = Esc("d")

\* A replacement template taken as it is written
ReplLiteral(part) == part

\* The text a replacement template stands for: two backslashes are one,
\* a backslash before a character that is no letter or digit stays
ReplExpand(part) ==
    [i \in 1..Len(part) |-> IF part[i] = Esc("\\") THEN Lit("\\") ELSE part[i]]

\* re.sub(r"\[n\]", part, text, 1): the first occurrence of the anchor
RECURSIVE ReplaceFirst(_, _, _)
ReplaceFirst(text, n, part) ==
    IF text = <<>> THEN <<>>
    ELSE IF Head(text) = Anchor(n) THEN ReplExpand(part) \o Tail(text)
         ELSE <<Head(text)>> \o ReplaceFirst(Tail(text), n, part)

\* The loop of step 5 meets a replacement re.sub rejects
EPC_substitute_raises(local_indices, valid_pools) ==
    \E i \in 1..Len(local_indices) : ReplRaises(valid_pools[i][local_indices[i] + 1])

\* execute, step 5: for i, local_idx in enumerate(local_indices)
RECURSIVE EPC_substitute(_, _, _, _, _)
EPC_substitute(final_prompt, i, local_indices, valid_pools, used) ==
    IF i > Len(local_indices) THEN final_prompt
    ELSE EPC_substitute(
            ReplaceFirst(final_prompt, used[i], valid_pools[i][local_indices[i] + 1]),
            i + 1, local_indices, valid_pools, used)

\* execute, step 7
EPC_is_last_item(current_index, total_combinations) ==
    current_index >= total_combinations - 1

\* execute, step 8: the record after the step
EPC_step(state, current_index, is_last_item) ==
    IF ~is_last_item
    THEN [state EXCEPT !.global_index = current_index + 1, !.is_completed = FALSE]
    ELSE [state EXCEPT !.is_completed = TRUE, !.global_index = 0]

\* A step 9 that sends the queue signal on the last item too
EPC_QueueOnLastItem(auto_queue, is_last_item) == auto_queue

\* execute, step 9: if auto_queue and not is_last_item
EPC_queue_signal(auto_queue, is_last_item) == auto_queue /\ ~is_last_item

\* execute, steps 3 to 9, once the reset is applied (s1) and the template
\* validated (v)
EPC_execute_tail(s1, file, v, template_text, max_combinations, auto_queue, base) ==
    LET current_index == s1.global_index
        is_completed == s1.is_completed
        pool_sizes == EPC_pool_sizes(v.valid_pools)
        space == EPC_space(pool_sizes)
        total_combinations == EPC_total(space, max_combinations)
        is_last_item == EPC_is_last_item(current_index, total_combinations)
    IN IF EPC_exhausted(current_index, total_combinations, is_completed)
       THEN \* return (template_text, log_msg, 0, total_combinations, True)
            LET s2 == [s1 EXCEPT !.is_completed = TRUE, !.global_index = 0]
            IN [state |-> s2, file |-> EPC_save_state(s2),
                out |-> [base EXCEPT !.path = "exhausted", !.prompt = template_text,
                                     !.log = "exhausted", !.ret_len = 5,
                                     !.total = total_combinations, !.space = space,
                                     !.writes = 1]]
       ELSE \* return (final_prompt, log_info)
            LET s2 == EPC_step(s1, current_index, is_last_item)
                local_indices == EPC_get_mixed_radix_indices(current_index, pool_sizes)
            IN IF EPC_substitute_raises(local_indices, v.valid_pools)
               THEN \* re.error leaves execute at step 5, before the record is saved
                    [state |-> s1, file |-> file,
                     out |-> [base EXCEPT !.path = "raised", !.sizes = pool_sizes,
                                          !.total = total_combinations, !.space = space]]
               ELSE
               [state |-> s2, file |-> EPC_save_state(s2),
                out |-> [base EXCEPT !.path = "normal",
                                     !.prompt = EPC_substitute(template_text, 1,
                                                   local_indices, v.valid_pools, v.used),
                                     !.log = "progress", !.ret_len = 2,
                                     !.sizes = pool_sizes,
                                     !.total = total_combinations, !.space = space,
                                     !.queued = EPC_queue_signal(auto_queue, is_last_item),
                                     !.writes = 1]]

\* A step 2 that saves the record before the early return
EPC_ValidatedSavesOnError(s1, file, v, template_text, max_combinations, auto_queue, base) ==
    IF v.raised = "ValueError"
    THEN [state |-> s1, file |-> EPC_save_state(s1),
          out |-> [base EXCEPT !.path = "error", !.prompt = template_text,
                               !.log = "error", !.ret_len = 5]]
    ELSE EPC_execute_tail(s1, file, v, template_text, max_combinations,
                          auto_queue, base)

\* execute, step 2 onwards: validation, and the early return when it fails
EPC_execute_validated(s1, file, v, template_text, max_combinations, auto_queue, base) ==
    IF v.raised = "ValueError"
    THEN \* return (template_text, error_msg, current_index, 0, True)
         [state |-> s1, file |-> file,
          out |-> [base EXCEPT !.path = "error", !.prompt = template_text,
                               !.log = "error", !.ret_len = 5]]
    ELSE EPC_execute_tail(s1, file, v, template_text, max_combinations,
                          auto_queue, base)

\* execute, step 1 onwards, the hash computed
EPC_execute_hashed(state, file, current_hash, pool_texts, template_text, start_index, max_combinations, auto_queue, tick) ==
    \* (self.state after step 1, file, validation result, ...)
    EPC_execute_validated(
        EPC_reset(state, current_hash, start_index), file,
        EPC_parse_and_validate_template(template_text, pool_texts),
        template_text, max_combinations, auto_queue,
        [tick |-> 1 - tick, hash |-> current_hash,
         start_index |-> start_index, auto_queue |-> auto_queue,
         index |-> EPC_reset(state, current_hash, start_index).global_index,
         path |-> "none", prompt |-> <<>>,
         log |-> "none", ret_len |-> 0, total |-> 0, space |-> 0,
         queued |-> FALSE, writes |-> 0,
         completed |-> EPC_reset(state, current_hash, start_index).is_completed,
         soft_reset |-> (current_hash = state.last_input_hash
                         /\ EPC_should_soft_reset(start_index, state)),
         sizes |-> <<>>])

\* execute(template_text, start_index, max_combinations, auto_queue, **kwargs):
\* the record in memory, the file and the observed result after the call
EPC_execute(state, file, template_text, start_index, max_combinations, auto_queue, kwargs, tick) ==
    EPC_execute_hashed(state, file,
        EPC_calculate_input_hash(template_text, max_combinations,
                                 EPC_pool_texts(kwargs)),
        EPC_pool_texts(kwargs), template_text, start_index, max_combinations,
        auto_queue, tick)

\* ------------------------------------------------------------------------
\* Specification SpecEPC: one ExhaustivePromptCombinator node, executed by
\* the host with inputs drawn anew for every execution
\* ------------------------------------------------------------------------
TextCat == << <<Lit("cat")>> >>

K_full == <<TextCatDog, TextRedBlue>>     \* pool_1_text and pool_2_text connected
K_single == <<TextCat>>                   \* only pool_1_text connected

EpcTemplates == {T_plain, T_two, T_rep}
EpcKwargs == {K_full, K_single}

InitEPC ==
    /\ node = "epc"
    /\ epc_file = NoFile
    /\ epc_state = EPC_load_state(epc_file)
    /\ epc_out = NoEpcOut
    /\ RadixIdle /\ ValIdle /\ AqIdle /\ PqIdle /\ HostIdle

\* The host runs the node: ExhaustivePromptCombinator.execute
EpcExecute ==
    /\ node = "epc"
    /\ \E t \in EpcTemplates, kw \in EpcKwargs, si \in 0..MaxStart,
          mc \in 0..MaxCombos, aq \in BOOLEAN :
         \E r \in {EPC_execute(epc_state, epc_file, t, si, mc, aq, kw, epc_out.tick)} :
            /\ epc_state' = r.state
            /\ epc_file' = r.file
            /\ epc_out' = r.out
    /\ UNCHANGED <<node, order_vars, host_vars, radix_vars, val_vars, aq_vars, pq_vars>>

\* The host process restarts: __init__ builds the node again and reads the file
EpcInit ==
    /\ node = "epc"
    /\ epc_state' = EPC_load_state(epc_file)
    /\ UNCHANGED <<node, order_vars, host_vars, epc_file, epc_out, radix_vars, val_vars, aq_vars, pq_vars>>

NextEPC == EpcExecute \/ EpcInit

SpecEPC == InitEPC /\ [][NextEPC]_vars

\* ------------------------------------------------------------------------
\* Specification SpecPrompt: the same node, executed with templates in which
\* every anchor occurs once, no ceiling, and start indices over the whole
\* space of the two-pool example
\* ------------------------------------------------------------------------
T_pair == <<Anchor(1), Blank, Anchor(2)>>
TextNested == << <<Anchor(2)>> >>         \* the one line "[2]"

K_nested == <<TextNested, TextCat>>

PromptTemplates == {T_two, T_pair}
PromptKwargs == {K_full, K_nested}

PromptExecute ==
    /\ node = "epc"
    /\ \E t \in PromptTemplates, kw \in PromptKwargs, si \in 0..MaxPromptStart,
          aq \in BOOLEAN :
         \E r \in {EPC_execute(epc_state, epc_file, t, si, 0, aq, kw, epc_out.tick)} :
            /\ epc_state' = r.state
            /\ epc_file' = r.file
            /\ epc_out' = r.out
    /\ UNCHANGED <<node, order_vars, host_vars, radix_vars, val_vars, aq_vars, pq_vars>>

NextPrompt == PromptExecute \/ EpcInit

SpecPrompt == InitEPC /\ [][NextPrompt]_vars

\* ------------------------------------------------------------------------
\* nodes/auto_queue_loop.py: AutoQueueLoopController
\* ------------------------------------------------------------------------
AQ_load_state(file) ==
    IF file.exists /\ file.readable THEN file.rec ELSE AQ_default_state

AQ_save_state(state) == [exists |-> TRUE, readable |-> TRUE, rec |-> state]

\* A start of a run that leaves the completion flag as it was
AQ_StartedKeepsCompleted(state, mode, index, config_hash) ==
    [state EXCEPT !.global_index = index,
                  !.workflow_started = TRUE,
                  !.last_mode = mode,
                  !.last_start_index = index,
                  !.last_input_hash = config_hash]

\* The state a new workflow run starts with: the six assignments of a
\* "From Start", "Specified" or restarting "Auto" branch
AQ_started(state, mode, index, config_hash) ==
    [state EXCEPT !.global_index = index,
                  !.is_completed = FALSE,
                  !.workflow_started = TRUE,
                  !.last_mode = mode,
                  !.last_start_index = index,
                  !.last_input_hash = config_hash]

\* A _determine_index_and_reset that takes every execution for the first of
\* a run
AQ_DetermineAlwaysNew(state, index_mode, start_index, config_hash) ==
    LET hash_changed == state.last_input_hash # config_hash
        from_start == AQ_started(state, "From Start", 0, config_hash)
        specified == AQ_started(state, "Specified", start_index, config_hash)
        auto_restart == AQ_started(state, "Auto", 0, config_hash)
        auto_resume == [state EXCEPT !.workflow_started = TRUE, !.last_mode = "Auto"]
    IN  IF index_mode = "From Start"
        THEN [state |-> from_start, index |-> 0, written |-> <<from_start>>]
        ELSE IF index_mode = "Specified"
        THEN [state |-> specified, index |-> start_index, written |-> <<specified>>]
        ELSE IF hash_changed \/ state.is_completed
        THEN [state |-> auto_restart, index |-> 0, written |-> <<auto_restart>>]
        ELSE [state |-> auto_resume, index |-> state.global_index,
              written |-> <<auto_resume>>]

\* _determine_index_and_reset: the state it leaves, the index it returns and
\* the records it saved
AQ_determine_index_and_reset(state, index_mode, start_index, config_hash) ==
    LET workflow_started == state.workflow_started
        last_hash == state.last_input_hash
        is_new_workflow == ~workflow_started \/ last_hash # config_hash
        hash_changed == last_hash # config_hash
        from_start == AQ_started(state, "From Start", 0, config_hash)
        specified == AQ_started(state, "Specified", start_index, config_hash)
        auto_restart == AQ_started(state, "Auto", 0, config_hash)
        auto_resume == [state EXCEPT !.workflow_started = TRUE, !.last_mode = "Auto"]
    IN  IF is_new_workflow
        THEN IF index_mode = "From Start"
             THEN [state |-> from_start, index |-> 0, written |-> <<from_start>>]
             ELSE IF index_mode = "Specified"
             THEN [state |-> specified, index |-> start_index, written |-> <<specified>>]
             ELSE IF hash_changed \/ state.is_completed
             THEN [state |-> auto_restart, index |-> 0, written |-> <<auto_restart>>]
             ELSE [state |-> auto_resume, index |-> state.global_index,
                   written |-> <<auto_resume>>]
        ELSE [state |-> state, index |-> state.global_index, written |-> <<>>]

AQ_calculate_limit(max_iteration_limit, total_count) ==
    Min(max_iteration_limit, total_count)

\* A "complete" case that keeps the index of the last prompt
AQ_CompleteNoReset(state, config_hash) ==
    [state EXCEPT !.is_completed = TRUE,
                  !.workflow_started = FALSE,
                  !.last_input_hash = config_hash]

\* The "complete" case of _handle_step_and_terminate
AQ_complete(state, config_hash) ==
    [state EXCEPT !.global_index = 0,
                  !.is_completed = TRUE,
                  !.workflow_started = FALSE,
                  !.last_input_hash = config_hash]

\* A _handle_step_and_terminate without the limit case
AQ_HandleLimitIgnored(state, global_index, total_count, effective_limit, config_hash) ==
    LET next_index == global_index + 1
    IN  IF global_index >= total_count - 1
        THEN [state |-> AQ_complete(state, config_hash), should_continue |-> FALSE]
        ELSE [state |-> [state EXCEPT !.global_index = next_index,
                                      !.is_completed = FALSE,
                                      !.workflow_started = TRUE,
                                      !.last_input_hash = config_hash],
              should_continue |-> TRUE]

\* A _handle_step_and_terminate whose limit case rewinds the index
AQ_HandleLimitRewinds(state, global_index, total_count, effective_limit, config_hash) ==
    LET next_index == global_index + 1
    IN  IF global_index >= total_count - 1
        THEN [state |-> AQ_complete(state, config_hash), should_continue |-> FALSE]
        ELSE IF global_index >= effective_limit - 1
        THEN [state |-> [state EXCEPT !.global_index = 0,
                                      !.is_completed = FALSE,
                                      !.workflow_started = FALSE,
                                      !.last_input_hash = config_hash],
              should_continue |-> FALSE]
        ELSE [state |-> [state EXCEPT !.global_index = next_index,
                                      !.is_completed = FALSE,
                                      !.workflow_started = TRUE,
                                      !.last_input_hash = config_hash],
              should_continue |-> TRUE]

\* _handle_step_and_terminate: the state it saves and its return value
AQ_handle_step_and_terminate(state, global_index, total_count, effective_limit, config_hash) ==
    LET next_index == global_index + 1
    IN  IF global_index >= total_count - 1
        THEN [state |-> AQ_complete(state, config_hash), should_continue |-> FALSE]
        ELSE IF global_index >= effective_limit - 1
        THEN [state |-> [state EXCEPT !.global_index = next_index,
                                      !.is_completed = FALSE,
                                      !.workflow_started = FALSE,
                                      !.last_input_hash = config_hash],
              should_continue |-> FALSE]
        ELSE [state |-> [state EXCEPT !.global_index = next_index,
                                      !.is_completed = FALSE,
                                      !.workflow_started = TRUE,
                                      !.last_input_hash = config_hash],
              should_continue |-> TRUE]

\* A bounds check that comes after steps 7 and 8
AQ_BoundsAfterStep(base, h, server) ==
    [base EXCEPT !.should_continue = h.should_continue, !.feedback = server,
                 !.queued = server /\ h.should_continue]

\* execute, step 4: return ("", error_msg), before the step and the signal
AQ_bounds_return(base, h, server) == base

\* AutoQueueLoopController.execute: the file and the observation it leaves
AQ_execute(server, file, COMBO_LIST, TOTAL_COUNT, CONFIG_HASH, INDEX_MODE, START_INDEX, MAX_ITERATION_LIMIT, tick) ==
    LET state == AQ_load_state(file)
        d == AQ_determine_index_and_reset(state, INDEX_MODE, START_INDEX, CONFIG_HASH)
        global_index == d.index
        effective_limit == AQ_calculate_limit(MAX_ITERATION_LIMIT, TOTAL_COUNT)
        file1 == IF d.written = <<>> THEN file ELSE AQ_save_state(d.state)
        base == [tick |-> 1 - tick, path |-> "bounds", prompt |-> <<>>,
                 index |-> global_index, limit |-> effective_limit,
                 should_continue |-> FALSE, feedback |-> FALSE, queued |-> FALSE,
                 written |-> d.written, list_len |-> Len(COMBO_LIST),
                 log |-> "error"]
        h == AQ_handle_step_and_terminate(d.state, global_index, TOTAL_COUNT,
                                          effective_limit, CONFIG_HASH)
    IN  IF global_index >= Len(COMBO_LIST)
        THEN [file |-> file1, out |-> AQ_bounds_return(base, h, server)]
        ELSE [file |-> AQ_save_state(h.state),
              out |-> [base EXCEPT !.path = "normal", !.log = "status",
                                   !.prompt = COMBO_LIST[global_index + 1],
                                   !.should_continue = h.should_continue,
                                   !.feedback = server,
                                   !.queued = server /\ h.should_continue,
                                   !.written = d.written \o <<h.state>>]]

\* ------------------------------------------------------------------------
\* Specification SpecAQ: the host runs AutoQueueLoopController.execute
\* ------------------------------------------------------------------------
\* The list an upstream node hands over: n prompts, prompt i named by i
ComboList(n) == [i \in 1..n |-> <<"combo", i - 1>>]

AqHashes == {"h1", "h2"}
AqModes == {"Auto", "Specified", "From Start"}

InitAQ ==
    /\ node = "aq"
    /\ aq_server \in BOOLEAN
    /\ aq_file = NoAqFile
    /\ aq_out = NoAqOut
    /\ RadixIdle /\ ValIdle /\ EpcIdle /\ PqIdle /\ HostIdle

AqExecute ==
    /\ node = "aq"
    /\ \E n \in 0..MaxList, total \in 0..MaxList, hash \in AqHashes,
          mode \in AqModes, si \in 0..MaxStart, limit \in 1..MaxLimit :
         \E r \in {AQ_execute(aq_server, aq_file, ComboList(n), total, hash,
                              mode, si, limit, aq_out.tick)} :
            /\ aq_file' = r.file
            /\ aq_out' = r.out
    /\ UNCHANGED <<node, order_vars, host_vars, aq_server, radix_vars, val_vars, epc_vars, pq_vars>>

NextAQ == AqExecute

SpecAQ == InitAQ /\ [][NextAQ]_vars

\* ------------------------------------------------------------------------
\* libs/state_manager.py and libs/auto_queue.py
\* ------------------------------------------------------------------------
SM_load_state(file) ==
    IF file.exists /\ file.readable THEN file.rec ELSE DefaultState

SM_save_state(state) == [exists |-> TRUE, readable |-> TRUE, rec |-> state]

\* The last-item branch of process_queue
PQ_last_item(state) == [state EXCEPT !.is_completed = TRUE, !.global_index = 0]

\* ComfyUIAutoQueue.process_queue(current_index, total_items, auto_queue,
\* node_id, state_manager): the manager's state, its file and the observation
PQ_process_queue(state, current_index, total_items, auto_queue, has_node_id, tick) ==
    LET base == [tick |-> 1 - tick, path |-> "stop", done |-> TRUE, next_index |-> 0,
                 queued |-> FALSE, widget |-> FALSE, writes |-> 1,
                 current_index |-> current_index, total_items |-> total_items,
                 auto_queue |-> auto_queue]
        is_last_item == current_index >= total_items - 1
        next_index == IF is_last_item THEN 0 ELSE current_index + 1
        stopped == [state EXCEPT !.is_completed = TRUE, !.global_index = 0]
        stepped == IF ~is_last_item
                   THEN [state EXCEPT !.global_index = next_index, !.is_completed = FALSE]
                   ELSE PQ_last_item(state)
        signal == auto_queue /\ ~is_last_item
    IN  IF current_index >= total_items \/ state.is_completed
        THEN [state |-> stopped, file |-> SM_save_state(stopped), out |-> base]
        ELSE [state |-> stepped, file |-> SM_save_state(stepped),
              out |-> [base EXCEPT !.path = "step", !.done = FALSE,
                                   !.next_index = next_index,
                                   !.queued = signal,
                                   !.widget = signal /\ has_node_id]]

\* ------------------------------------------------------------------------
\* Specification SpecPQ: a node calls process_queue on its state manager
\* ------------------------------------------------------------------------
InitPQ ==
    /\ node = "pq"
    /\ pq_file = NoFile
    /\ pq_state = SM_load_state(pq_file)
    /\ pq_out = NoPqOut
    /\ RadixIdle /\ ValIdle /\ EpcIdle /\ AqIdle /\ HostIdle

PqProcess ==
    /\ node = "pq"
    /\ \E ci \in 0..MaxList, total \in 0..MaxList, aq \in BOOLEAN, nid \in BOOLEAN :
         \E r \in {PQ_process_queue(pq_state, ci, total, aq, nid, pq_out.tick)} :
            /\ pq_state' = r.state
            /\ pq_file' = r.file
            /\ pq_out' = r.out
    /\ UNCHANGED <<node, order_vars, host_vars, radix_vars, val_vars, epc_vars, aq_vars>>

\* StateManager.reset_state(): the caller puts the default record in memory
PqReset ==
    /\ node = "pq"
    /\ pq_state' = DefaultState
    /\ UNCHANGED <<node, order_vars, host_vars, pq_file, pq_out, radix_vars, val_vars, epc_vars, aq_vars>>

\* StateManager(...): the host restarts and the manager loads its file
PqInit ==
    /\ node = "pq"
    /\ pq_state' = SM_load_state(pq_file)
    /\ UNCHANGED <<node, order_vars, host_vars, pq_file, pq_out, radix_vars, val_vars, epc_vars, aq_vars>>

NextPQ == PqProcess \/ PqReset \/ PqInit

SpecPQ == InitPQ /\ [][NextPQ]_vars

\* ------------------------------------------------------------------------
\* Specification SpecWriters: one of the three components that write a record
\* ------------------------------------------------------------------------
InitWriters == InitEPC \/ InitAQ \/ InitPQ

NextWriters == NextEPC \/ NextAQ \/ NextPQ

SpecWriters == InitWriters /\ [][NextWriters]_vars

\* ------------------------------------------------------------------------
\* Specification Spec: any one of the components
\* ------------------------------------------------------------------------
Init == InitRadix \/ InitValidate \/ InitEPC \/ InitAQ \/ InitPQ

Next == NextRadix \/ NextValidate \/ NextEPC \/ NextAQ \/ NextPQ

Spec == Init /\ [][Next]_vars

\* ------------------------------------------------------------------------
\* The re-run predicates: IS_CHANGED of the two nodes, check_change of the
\* library
\* ------------------------------------------------------------------------
NoneInt == -1        \* None in the place of an INT input
NaN == [fn |-> "none", nan |-> TRUE, value |-> <<>>]
Value(v) == [fn |-> "none", nan |-> FALSE, value |-> v]

\* An IS_CHANGED that looks at the index only
AQ_IsChangedIndexOnly(file, TOTAL_COUNT, CONFIG_HASH, MAX_ITERATION_LIMIT) ==
    IF ~file.exists \/ ~file.readable THEN [ret |-> NaN, file |-> file]
    ELSE IF MAX_ITERATION_LIMIT = NoneInt \/ TOTAL_COUNT = NoneInt
         THEN [ret |-> NaN, file |-> file]
         ELSE IF file.rec.global_index < Min(MAX_ITERATION_LIMIT, TOTAL_COUNT)
              THEN [ret |-> NaN, file |-> file]
              ELSE [ret |-> Value(<<"hash", CONFIG_HASH>>), file |-> file]

\* An IS_CHANGED that looks at the completion flag only
AQ_IsChangedFlagOnly(file, TOTAL_COUNT, CONFIG_HASH, MAX_ITERATION_LIMIT) ==
    IF ~file.exists \/ ~file.readable THEN [ret |-> NaN, file |-> file]
    ELSE IF MAX_ITERATION_LIMIT = NoneInt \/ TOTAL_COUNT = NoneInt
         THEN [ret |-> NaN, file |-> file]
         ELSE IF ~file.rec.is_completed
              THEN [ret |-> NaN, file |-> file]
              ELSE [ret |-> Value(<<"hash", CONFIG_HASH>>), file |-> file]

\* AutoQueueLoopController.IS_CHANGED: what it returns and the file it leaves.
\* COMBO_LIST, INDEX_MODE and START_INDEX are not read.  The file is opened
\* for reading only; an exception of open or json.load is caught.
AQ_IS_CHANGED(file, TOTAL_COUNT, CONFIG_HASH, MAX_ITERATION_LIMIT) ==
    IF ~file.exists THEN [ret |-> NaN, file |-> file]
    ELSE IF ~file.readable THEN [ret |-> NaN, file |-> file]
    ELSE IF MAX_ITERATION_LIMIT = NoneInt \/ TOTAL_COUNT = NoneInt
         THEN [ret |-> NaN, file |-> file]
         ELSE LET effective_limit == Min(MAX_ITERATION_LIMIT, TOTAL_COUNT)
                  current_index == file.rec.global_index
                  is_completed == file.rec.is_completed
              IN IF ~is_completed /\ current_index < effective_limit
                 THEN [ret |-> NaN, file |-> file]
                 ELSE [ret |-> Value(<<"hash", CONFIG_HASH>>), file |-> file]

\* ExhaustivePromptCombinator.IS_CHANGED(auto_queue, **kwargs)
EPC_IS_CHANGED(auto_queue) == IF auto_queue THEN NaN ELSE Value(<<"int", 0>>)

\* ComfyUIAutoQueue.check_change(auto_queue)
check_change(auto_queue) == IF auto_queue THEN NaN ELSE Value(<<"int", 0>>)

\* ------------------------------------------------------------------------
\* Specification SpecChanged: the host asks the re-run predicates, with the
\* state files as earlier executions or the user may have left them
\* ------------------------------------------------------------------------
\* Records AutoQueueLoopController.execute leaves: a run under way at index
\* 0..MaxList, or a completed run (index 0)
AqRecords ==
    {[AQ_default_state EXCEPT !.global_index = i, !.last_input_hash = "h1",
                              !.workflow_started = TRUE, !.last_mode = "Auto",
                              !.last_start_index = 0] : i \in 0..MaxList}
    \cup {[AQ_default_state EXCEPT !.is_completed = TRUE, !.last_input_hash = "h1",
                                   !.last_mode = "Auto", !.last_start_index = 0]}

AqFiles == {NoAqFile, UnreadableAqFile} \cup {AQ_save_state(r) : r \in AqRecords}

EpcFiles ==
    {NoFile, UnreadableFile, EPC_save_state([DefaultState EXCEPT !.global_index = 1])}

InitChanged ==
    /\ node = "changed"
    /\ aq_server \in BOOLEAN
    /\ aq_file \in AqFiles
    /\ aq_out = NoAqOut
    /\ epc_file \in EpcFiles
    /\ epc_state = EPC_load_state(epc_file)
    /\ epc_out = NoEpcOut
    /\ RadixIdle /\ ValIdle /\ PqIdle /\ HostIdle

\* The host calls AutoQueueLoopController.IS_CHANGED
AqIsChanged ==
    /\ node = "changed"
    /\ \E total \in (0..MaxList) \cup {NoneInt}, hash \in AqHashes,
          limit \in (1..MaxLimit) \cup {NoneInt} :
         \E r \in {AQ_IS_CHANGED(aq_file, total, hash, limit)} :
            /\ ic_out' = [r.ret EXCEPT !.fn = "aq"]
            /\ aq_file' = r.file
            /\ host_in' = [fn |-> "aq_is_changed", args |-> <<total, hash, limit>>,
                           delivery |-> "ok", storage |-> Storage(aq_file)]
    /\ UNCHANGED <<node, order_vars, aq_server, aq_out, radix_vars, val_vars, epc_vars, pq_vars>>

\* The host calls ExhaustivePromptCombinator.IS_CHANGED
EpcIsChanged ==
    /\ node = "changed"
    /\ \E aq \in BOOLEAN :
         /\ ic_out' = [EPC_IS_CHANGED(aq) EXCEPT !.fn = "epc"]
         /\ host_in' = [fn |-> "epc_is_changed", args |-> <<aq>>, delivery |-> "ok",
                       storage |-> "none"]
    /\ UNCHANGED <<node, order_vars, radix_vars, val_vars, epc_vars, aq_vars, pq_vars>>

\* A node calls ComfyUIAutoQueue.check_change
LibCheckChange ==
    /\ node = "changed"
    /\ \E aq \in BOOLEAN :
         /\ ic_out' = [check_change(aq) EXCEPT !.fn = "lib"]
         /\ host_in' = [fn |-> "check_change", args |-> <<aq>>, delivery |-> "ok",
                       storage |-> "none"]
    /\ UNCHANGED <<node, order_vars, radix_vars, val_vars, epc_vars, aq_vars, pq_vars>>

NextChanged == AqIsChanged \/ EpcIsChanged \/ LibCheckChange

SpecChanged == InitChanged /\ [][NextChanged]_vars

\* ------------------------------------------------------------------------
\* The notification sink: PromptServer.instance.send_sync, which delivers
\* ("ok") or raises ("fail")
\* ------------------------------------------------------------------------
\* A _send_frontend_signal without its try block
EPC_SendNoTry(delivery) == IF delivery = "fail" THEN "raised" ELSE "sent"

\* ExhaustivePromptCombinator._send_frontend_signal: try: send_sync;
\* except Exception: pass
EPC_send_frontend_signal(delivery) == IF delivery = "fail" THEN "caught" ELSE "sent"

\* AutoQueueLoopController._send_signal: nothing without PromptServer; else
\* the feedback and the queue signal in one try block
AQ_send_signal(server, should_continue, delivery) ==
    IF ~server THEN "skipped"
    ELSE IF delivery = "fail" THEN "caught" ELSE "sent"

\* ComfyUIAutoQueue.send_signal: try: send_sync; except Exception: print
send_signal(delivery) == IF delivery = "fail" THEN "caught" ELSE "sent"

\* What a call leaves when an exception of the sink leaves it: the record as
\* saved before the signal, and no return value
Raised(r) == [r EXCEPT !.out.path = "raised"]

\* ExhaustivePromptCombinator.execute against a sink: step 9 sends after the
\* record is saved
EPC_execute_sink(state, file, template_text, start_index, max_combinations, auto_queue, kwargs, tick, delivery) ==
    LET r == EPC_execute(state, file, template_text, start_index, max_combinations,
                         auto_queue, kwargs, tick)
    IN IF r.out.queued /\ EPC_send_frontend_signal(delivery) = "raised"
       THEN Raised(r) ELSE r

\* AutoQueueLoopController.execute against a sink: step 8 sends after step 7
\* saved the record
AQ_execute_sink(server, file, COMBO_LIST, TOTAL_COUNT, CONFIG_HASH, INDEX_MODE, START_INDEX, MAX_ITERATION_LIMIT, tick, delivery) ==
    LET r == AQ_execute(server, file, COMBO_LIST, TOTAL_COUNT, CONFIG_HASH, INDEX_MODE,
                        START_INDEX, MAX_ITERATION_LIMIT, tick)
    IN IF /\ r.out.path = "normal"
          /\ AQ_send_signal(server, r.out.should_continue, delivery) = "raised"
       THEN Raised(r) ELSE r

\* ComfyUIAutoQueue.process_queue against a sink: add_to_queue sends after
\* save_state
PQ_process_queue_sink(state, current_index, total_items, auto_queue, has_node_id, tick, delivery) ==
    LET r == PQ_process_queue(state, current_index, total_items, auto_queue,
                              has_node_id, tick)
    IN IF r.out.queued /\ send_signal(delivery) = "raised"
       THEN Raised(r) ELSE r

\* ------------------------------------------------------------------------
\* Specification SpecHost: one of the three components, started on a state
\* file that is missing or cannot be read, and run against a sink that may
\* fail
\* ------------------------------------------------------------------------
Deliveries == {"ok", "fail"}

InitHost ==
    \/ /\ node = "epc"
       /\ epc_file \in {NoFile, UnreadableFile}
       /\ epc_state = EPC_load_state(epc_file)
       /\ epc_out = NoEpcOut
       /\ RadixIdle /\ ValIdle /\ AqIdle /\ PqIdle /\ HostIdle
    \/ /\ node = "aq"
       /\ aq_server \in BOOLEAN
       /\ aq_file \in {NoAqFile, UnreadableAqFile}
       /\ aq_out = NoAqOut
       /\ RadixIdle /\ ValIdle /\ EpcIdle /\ PqIdle /\ HostIdle
    \/ /\ node = "pq"
       /\ pq_file \in {NoFile, UnreadableFile}
       /\ pq_state = SM_load_state(pq_file)
       /\ pq_out = NoPqOut
       /\ RadixIdle /\ ValIdle /\ EpcIdle /\ AqIdle /\ HostIdle

HostEpcExecute ==
    /\ node = "epc"
    /\ \E kw \in EpcKwargs, si \in 0..MaxStart, aq \in BOOLEAN, dl \in Deliveries :
         \E r \in {EPC_execute_sink(epc_state, epc_file, T_two, si, 0, aq, kw,
                                     epc_out.tick, dl)} :
            /\ epc_state' = r.state
            /\ epc_file' = r.file
            /\ epc_out' = r.out
            /\ host_in' = [fn |-> "epc_execute", args |-> <<T_two, si, 0, aq, kw>>,
                           delivery |-> dl, storage |-> Storage(epc_file)]
    /\ UNCHANGED <<node, order_vars, ic_out, radix_vars, val_vars, aq_vars, pq_vars>>

HostAqExecute ==
    /\ node = "aq"
    /\ \E n \in 1..MaxList, mode \in AqModes, si \in 0..MaxStart,
          limit \in 1..MaxLimit, dl \in Deliveries :
         \E r \in {AQ_execute_sink(aq_server, aq_file, ComboList(n), n, "h1",
                                    mode, si, limit, aq_out.tick, dl)} :
            /\ aq_file' = r.file
            /\ aq_out' = r.out
            /\ host_in' = [fn |-> "aq_execute", args |-> <<n, n, "h1", mode, si, limit>>,
                           delivery |-> dl, storage |-> Storage(aq_file)]
    /\ UNCHANGED <<node, order_vars, ic_out, aq_server, radix_vars, val_vars, epc_vars, pq_vars>>

HostPqProcess ==
    /\ node = "pq"
    /\ \E ci \in 0..MaxList, total \in 1..MaxList, aq \in BOOLEAN, nid \in BOOLEAN,
          dl \in Deliveries :
         \E r \in {PQ_process_queue_sink(pq_state, ci, total, aq, nid, pq_out.tick, dl)} :
            /\ pq_state' = r.state
            /\ pq_file' = r.file
            /\ pq_out' = r.out
            /\ host_in' = [fn |-> "process_queue", args |-> <<ci, total, aq, nid>>,
                           delivery |-> dl, storage |-> Storage(pq_file)]
    /\ UNCHANGED <<node, order_vars, ic_out, radix_vars, val_vars, epc_vars, aq_vars>>

\* A restart of the host constructs the node again: __init__ loads the record
HostEpcInit ==
    /\ node = "epc"
    /\ epc_state' = EPC_load_state(epc_file)
    /\ host_in' = [fn |-> "epc_init", args |-> <<>>, delivery |-> "ok",
                   storage |-> Storage(epc_file)]
    /\ UNCHANGED <<node, order_vars, ic_out, epc_file, epc_out, radix_vars, val_vars, aq_vars, pq_vars>>

HostPqInit ==
    /\ node = "pq"
    /\ pq_state' = SM_load_state(pq_file)
    /\ host_in' = [fn |-> "pq_init", args |-> <<>>, delivery |-> "ok",
                   storage |-> Storage(pq_file)]
    /\ UNCHANGED <<node, order_vars, ic_out, pq_file, pq_out, radix_vars, val_vars, epc_vars, aq_vars>>

NextHost ==
    HostEpcExecute \/ HostEpcInit \/ HostAqExecute \/ HostPqProcess \/ HostPqInit

SpecHost == InitHost /\ [][NextHost]_vars

\* ------------------------------------------------------------------------
\* Specification SpecMode: AutoQueueLoopController.execute on a list of
\* MaxList prompts, its inputs recorded with each call
\* ------------------------------------------------------------------------
InitMode ==
    /\ node = "aq"
    /\ aq_server \in BOOLEAN
    /\ aq_file = NoAqFile
    /\ aq_out = NoAqOut
    /\ RadixIdle /\ ValIdle /\ EpcIdle /\ PqIdle /\ HostIdle

ModeAqExecute ==
    /\ node = "aq"
    /\ \E hash \in AqHashes, mode \in AqModes, si \in 0..MaxStart, limit \in 1..MaxLimit :
         \E r \in {AQ_execute(aq_server, aq_file, ComboList(MaxList), MaxList, hash,
                               mode, si, limit, aq_out.tick)} :
            /\ aq_file' = r.file
            /\ aq_out' = r.out
            /\ host_in' = [fn |-> "aq_execute",
                           args |-> <<MaxList, MaxList, hash, mode, si, limit>>,
                           delivery |-> "ok", storage |-> Storage(aq_file)]
            /\ ic_out' = NoIcOut
    /\ UNCHANGED <<node, order_vars, aq_server, radix_vars, val_vars, epc_vars, pq_vars>>

\* The host asks IS_CHANGED with the inputs of the last execution, as it does
\* when the workflow is queued again unchanged
ModeAqIsChanged ==
    /\ node = "aq"
    /\ host_in.fn = "aq_execute"
    /\ \E r \in {AQ_IS_CHANGED(aq_file, host_in.args[2], host_in.args[3],
                                host_in.args[6])} :
          /\ ic_out' = [r.ret EXCEPT !.fn = "aq"]
          /\ aq_file' = r.file
    /\ UNCHANGED <<node, order_vars, host_in, aq_server, aq_out, radix_vars, val_vars, epc_vars, pq_vars>>

NextMode == ModeAqExecute \/ ModeAqIsChanged

SpecMode == InitMode /\ [][NextMode]_vars

\* ------------------------------------------------------------------------
\* Specification SpecLoop: the queue loop of the host.  The user queues a
\* workflow with inputs of their choice; every "exhaustive-add-queue" signal
\* makes the frontend queue the same workflow again, so the node is executed
\* again with the same inputs.  host_in.args holds the inputs and, last, the
\* number of executions of the loop so far.
\* ------------------------------------------------------------------------
MaxRuns == 5           \* executions of one loop the model follows

LoopRuns == host_in.args[Len(host_in.args)]

InitLoop ==
    \/ /\ node = "epc"
       /\ epc_file = NoFile
       /\ epc_state = EPC_load_state(epc_file)
       /\ epc_out = NoEpcOut
       /\ RadixIdle /\ ValIdle /\ AqIdle /\ PqIdle /\ HostIdle
    \/ /\ node = "aq"
       /\ aq_server \in BOOLEAN
       /\ aq_file = NoAqFile
       /\ aq_out = NoAqOut
       /\ RadixIdle /\ ValIdle /\ EpcIdle /\ PqIdle /\ HostIdle

\* ExhaustivePromptCombinator.execute with the inputs in and the number runs
LoopEpcRun(in, runs) ==
    \E r \in {EPC_execute(epc_state, epc_file, in[1], in[2], in[3], in[4], in[5],
                          epc_out.tick)} :
       /\ epc_state' = r.state
       /\ epc_file' = r.file
       /\ epc_out' = r.out
       /\ host_in' = [fn |-> "epc_loop", args |-> in \o <<runs>>,
                      delivery |-> "ok", storage |-> Storage(epc_file)]
       /\ UNCHANGED <<node, order_vars, ic_out, radix_vars, val_vars, aq_vars, pq_vars>>

\* The user queues the workflow of an ExhaustivePromptCombinator, once no
\* execution is pending
LoopEpcStart ==
    /\ node = "epc"
    /\ ~(epc_out.queued /\ LoopRuns < MaxRuns)
    /\ \E kw \in EpcKwargs, si \in 0..MaxStart, mc \in 0..MaxCombos, aq \in BOOLEAN :
          LoopEpcRun(<<T_two, si, mc, aq, kw>>, 1)

\* The frontend answers the queue signal of the last execution
LoopEpcContinue ==
    /\ node = "epc"
    /\ host_in.fn = "epc_loop"
    /\ epc_out.queued
    /\ LoopRuns < MaxRuns
    /\ LoopEpcRun(SubSeq(host_in.args, 1, 5), LoopRuns + 1)

\* AutoQueueLoopController.execute with the inputs in and the number runs
LoopAqRun(in, runs) ==
    \E r \in {AQ_execute(aq_server, aq_file, ComboList(in[1]), in[2], in[3], in[4],
                         in[5], in[6], aq_out.tick)} :
       /\ aq_file' = r.file
       /\ aq_out' = r.out
       /\ host_in' = [fn |-> "aq_loop", args |-> in \o <<runs>>,
                      delivery |-> "ok", storage |-> Storage(aq_file)]
       /\ UNCHANGED <<node, order_vars, ic_out, aq_server, radix_vars, val_vars, epc_vars, pq_vars>>

\* The user queues the workflow of an AutoQueueLoopController, once no
\* execution is pending; COMBO_LIST and TOTAL_COUNT are a list of at least
\* one prompt and its length, as PromptCombinationGenerator hands them over
LoopAqStart ==
    /\ node = "aq"
    /\ ~aq_out.queued
    /\ \E n \in 1..MaxList, hash \in AqHashes, mode \in AqModes,
          si \in 0..MaxStart, limit \in 1..MaxLimit :
          LoopAqRun(<<n, n, hash, mode, si, limit>>, 1)

LoopAqContinue ==
    /\ node = "aq"
    /\ host_in.fn = "aq_loop"
    /\ aq_out.queued
    /\ LoopRuns < MaxRuns
    /\ LoopAqRun(SubSeq(host_in.args, 1, 6), LoopRuns + 1)

NextLoop == LoopEpcStart \/ LoopEpcContinue \/ LoopAqStart \/ LoopAqContinue

SpecLoop == InitLoop /\ [][NextLoop]_vars

\* ------------------------------------------------------------------------
\* Specification SpecOrder: one execution followed effect by effect.  The
\* call computes its result; its effects on the record and on the frontend
\* then happen one at a time, in the order of the code, and the value is
\* returned after the last.
\* ------------------------------------------------------------------------
MaxSignals == 2        \* queue signals in flight the model follows

\* An execute that sends the queue signal before it saves the record
EPC_OrderSignalFirst == <<"signal", "save">>

\* ExhaustivePromptCombinator.execute: step 8 (self.state, _save_state), then
\* step 9 (_send_frontend_signal)
EPC_order == <<"save", "signal">>

\* AutoQueueLoopController.execute: step 7 (_handle_step_and_terminate, which
\* saves), then step 8 (_send_signal)
AQ_order == <<"save", "signal">>

\* ComfyUIAutoQueue.process_queue: update_state and save_state, then
\* add_to_queue
PQ_order == <<"save", "signal">>

InitOrder ==
    \/ /\ node = "epc"
       /\ epc_file = NoFile
       /\ epc_state = EPC_load_state(epc_file)
       /\ epc_out = NoEpcOut
       /\ RadixIdle /\ ValIdle /\ AqIdle /\ PqIdle /\ HostIdle
    \/ /\ node = "aq"
       /\ aq_server \in BOOLEAN
       /\ aq_file = NoAqFile
       /\ aq_out = NoAqOut
       /\ RadixIdle /\ ValIdle /\ EpcIdle /\ PqIdle /\ HostIdle
    \/ /\ node = "pq"
       /\ pq_file = NoFile
       /\ pq_state = SM_load_state(pq_file)
       /\ pq_out = NoPqOut
       /\ RadixIdle /\ ValIdle /\ EpcIdle /\ AqIdle /\ HostIdle

\* The host starts an execution of the node, no more than MaxSignals signals
\* waiting
OrderEpcCall ==
    /\ node = "epc"
    /\ pc.pos = 0
    /\ Len(sig) < MaxSignals
    /\ \E kw \in EpcKwargs, si \in 0..MaxStart, aq \in BOOLEAN :
         /\ pc' = [pos |-> 1, order |-> EPC_order,
                   r |-> EPC_execute(epc_state, epc_file, T_two, si, 0, aq, kw,
                                     epc_out.tick)]
         /\ host_in' = [fn |-> "epc_order", args |-> <<T_two, si, 0, aq, kw>>,
                        delivery |-> "ok", storage |-> Storage(epc_file)]
    /\ UNCHANGED <<node, sig, ic_out, radix_vars, val_vars, epc_vars, aq_vars, pq_vars>>

\* The next effect of the execution under way; after the last, its return
OrderEpcStep ==
    /\ node = "epc"
    /\ pc.pos > 0
    /\ IF pc.order[pc.pos] = "save"
       THEN /\ epc_state' = pc.r.state
            /\ epc_file' = pc.r.file
            /\ sig' = sig
       ELSE /\ sig' = IF pc.r.out.queued THEN Append(sig, "exhaustive-add-queue") ELSE sig
            /\ UNCHANGED <<epc_state, epc_file>>
    /\ IF pc.pos = Len(pc.order)
       THEN pc' = NoCall /\ epc_out' = pc.r.out
       ELSE pc' = [pc EXCEPT !.pos = @ + 1] /\ epc_out' = epc_out
    /\ UNCHANGED <<node, host_vars, radix_vars, val_vars, aq_vars, pq_vars>>

OrderAqCall ==
    /\ node = "aq"
    /\ pc.pos = 0
    /\ Len(sig) < MaxSignals
    /\ \E n \in 1..MaxList, mode \in AqModes, si \in 0..MaxStart, limit \in 1..MaxLimit :
         /\ pc' = [pos |-> 1, order |-> AQ_order,
                   r |-> AQ_execute(aq_server, aq_file, ComboList(n), n, "h1", mode,
                                    si, limit, aq_out.tick)]
         /\ host_in' = [fn |-> "aq_order", args |-> <<n, n, "h1", mode, si, limit>>,
                        delivery |-> "ok", storage |-> Storage(aq_file)]
    /\ UNCHANGED <<node, sig, ic_out, radix_vars, val_vars, epc_vars, aq_vars, pq_vars>>

OrderAqStep ==
    /\ node = "aq"
    /\ pc.pos > 0
    /\ IF pc.order[pc.pos] = "save"
       THEN /\ aq_file' = pc.r.file
            /\ sig' = sig
       ELSE /\ sig' = IF pc.r.out.queued THEN Append(sig, "exhaustive-add-queue") ELSE sig
            /\ aq_file' = aq_file
    /\ IF pc.pos = Len(pc.order)
       THEN pc' = NoCall /\ aq_out' = pc.r.out
       ELSE pc' = [pc EXCEPT !.pos = @ + 1] /\ aq_out' = aq_out
    /\ UNCHANGED <<node, host_vars, aq_server, radix_vars, val_vars, epc_vars, pq_vars>>

OrderPqCall ==
    /\ node = "pq"
    /\ pc.pos = 0
    /\ Len(sig) < MaxSignals
    /\ \E ci \in 0..MaxList, total \in 1..MaxList, aq \in BOOLEAN, nid \in BOOLEAN :
         /\ pc' = [pos |-> 1, order |-> PQ_order,
                   r |-> PQ_process_queue(pq_state, ci, total, aq, nid, pq_out.tick)]
         /\ host_in' = [fn |-> "pq_order", args |-> <<ci, total, aq, nid>>,
                        delivery |-> "ok", storage |-> Storage(pq_file)]
    /\ UNCHANGED <<node, sig, ic_out, radix_vars, val_vars, epc_vars, aq_vars, pq_vars>>

OrderPqStep ==
    /\ node = "pq"
    /\ pc.pos > 0
    /\ IF pc.order[pc.pos] = "save"
       THEN /\ pq_state' = pc.r.state
            /\ pq_file' = pc.r.file
            /\ sig' = sig
       ELSE /\ sig' = IF pc.r.out.queued THEN Append(sig, "exhaustive-add-queue") ELSE sig
            /\ UNCHANGED <<pq_state, pq_file>>
    /\ IF pc.pos = Len(pc.order)
       THEN pc' = NoCall /\ pq_out' = pc.r.out
       ELSE pc' = [pc EXCEPT !.pos = @ + 1] /\ pq_out' = pq_out
    /\ UNCHANGED <<node, host_vars, radix_vars, val_vars, epc_vars, aq_vars>>

\* The frontend answers the oldest signal: it queues the workflow again
OrderAnswer ==
    /\ sig # <<>>
    /\ sig' = Tail(sig)
    /\ UNCHANGED <<node, pc, host_vars, radix_vars, val_vars, epc_vars, aq_vars, pq_vars>>

NextOrder ==
    \/ OrderEpcCall \/ OrderEpcStep
    \/ OrderAqCall \/ OrderAqStep
    \/ OrderPqCall \/ OrderPqStep
    \/ OrderAnswer

SpecOrder == InitOrder /\ [][NextOrder]_vars

\* ------------------------------------------------------------------------
\* libs/state_manager.py: StateManager.calculate_input_hash
\* ------------------------------------------------------------------------
\* A Python dict is the sequence of its (key, value) items in insertion
\* order, the keys distinct.  A value is a str, an int or a bool.
PyStr(x) == [t |-> "str", s |-> x, n |-> 0, b |-> FALSE]
PyInt(x) == [t |-> "int", s |-> "", n |-> x, b |-> FALSE]
PyBool(x) == [t |-> "bool", s |-> "", n |-> 0, b |-> x]

Digits == <<"0", "1", "2", "3", "4", "5", "6", "7", "8", "9">>

\* f"{v}"
Format(v) ==
    IF v.t = "str" THEN v.s
    ELSE IF v.t = "int" THEN Digits[v.n + 1]
    ELSE IF v.b THEN "True" ELSE "False"

\* The keys of the drawn dictionaries, in the order of Python's str comparison
KeyOrder ==
    <<"auto_queue", "extra_pnginfo", "max_combinations", "start_index", "template_text">>
KeyRank(k) == CHOOSE i \in 1..Len(KeyOrder) : KeyOrder[i] = k

DictKeys(d) == {d[i][1] : i \in 1..Len(d)}
DictGet(d, k, default) ==
    IF k \in DictKeys(d)
    THEN d[CHOOSE i \in 1..Len(d) : d[i][1] = k][2]
    ELSE default

\* del data_dict[key]
DictDel(d, k) == SelectSeq(d, LAMBDA item : item[1] # k)

\* A data_string built from the items as they were inserted
ItemsAsInserted(d) == d

\* sorted(data_dict.items()): by key, the keys being distinct
RECURSIVE sorted_items(_)
sorted_items(d) ==
    IF d = <<>> THEN <<>>
    ELSE LET i == CHOOSE i \in 1..Len(d) :
                    \A j \in 1..Len(d) : KeyRank(d[i][1]) <= KeyRank(d[j][1])
         IN <<d[i]>> \o sorted_items(DictDel(d, d[i][1]))

\* "|".join([f"{k}:{v}" for k, v in items]): the string as its pieces
RECURSIVE JoinItems(_)
JoinItems(items) ==
    IF items = <<>> THEN <<>>
    ELSE <<Head(items)[1], ":", Format(Head(items)[2])>>
         \o (IF Len(items) > 1 THEN <<"|">> ELSE <<>>)
         \o JoinItems(Tail(items))

\* hashlib.md5(...).hexdigest(), taken as free of collisions
md5(data_string) == <<"md5", data_string>>

\* An exclusion list that names the index only
SM_ExcludeIndexOnly == <<"start_index">>

\* calculate_input_hash: exclude_keys
SM_exclude_keys == <<"start_index", "auto_queue", "extra_pnginfo">>

RECURSIVE DictDelAll(_, _)
DictDelAll(d, keys) ==
    IF keys = <<>> THEN d ELSE DictDelAll(DictDel(d, Head(keys)), Tail(keys))

\* include_keys = None
NoKeys == <<>>

\* calculate_input_hash(inputs, include_keys)
SM_calculate_input_hash(inputs, include_keys) ==
    LET data_dict ==
            IF include_keys # NoKeys
            THEN [i \in 1..Len(include_keys) |->
                    <<include_keys[i], DictGet(inputs, include_keys[i], PyStr(""))>>]
            ELSE DictDelAll(inputs, SM_exclude_keys)
    IN md5(JoinItems(sorted_items(data_dict)))

\* ExhaustivePromptCombinator.execute: all_inputs
EPC_all_inputs(template_text, start_index, max_combinations, auto_queue, kwargs, extra_pnginfo) ==
    [template_text |-> template_text, start_index |-> start_index,
     max_combinations |-> max_combinations, auto_queue |-> auto_queue,
     extra_pnginfo |-> extra_pnginfo, pool_texts |-> EPC_pool_texts(kwargs)]

\* ExhaustivePromptCombinator._calculate_input_hash(all_inputs)
EPC_calculate_input_hash_of(all_inputs) ==
    EPC_calculate_input_hash(all_inputs.template_text, all_inputs.max_combinations,
                             all_inputs.pool_texts)

\* ------------------------------------------------------------------------
\* Specification SpecHash: calculate_input_hash applied to drawn
\* dictionaries, and an ExhaustivePromptCombinator node executed with drawn
\* control fields
\* ------------------------------------------------------------------------
\* The values drawn for each key
KeyValues(k) ==
    IF k = "template_text" THEN {PyStr("a")}
    ELSE IF k = "max_combinations" THEN {PyInt(1)}
    ELSE IF k = "start_index" THEN {PyInt(0), PyInt(1)}
    ELSE IF k = "auto_queue" THEN {PyBool(TRUE)}
    ELSE {PyStr("{}")}

\* Every dictionary over a set of up to MaxItems keys: every choice of
\* values, every insertion order
HashInputs ==
    UNION { { d \in [1..Cardinality(K) -> UNION {{<<k, v>> : v \in KeyValues(k)} : k \in K}] :
                /\ \A i, j \in 1..Cardinality(K) : d[i][1] = d[j][1] => i = j }
            : K \in {S \in SUBSET SeqToSet(KeyOrder) : Cardinality(S) <= MaxItems} }

IncludeKeys == {NoKeys, <<"template_text", "start_index">>}

PngInfos == {"empty", "workflow"}

InitHash ==
    \/ /\ node = "hash"
       /\ RadixIdle /\ ValIdle /\ EpcIdle /\ AqIdle /\ PqIdle /\ HostIdle
    \/ InitEPC

SmHash ==
    /\ node = "hash"
    /\ \E d \in HashInputs, inc \in IncludeKeys :
         /\ host_in' = [fn |-> "calculate_input_hash", args |-> <<d, inc>>,
                        delivery |-> "ok", storage |-> "none"]
         /\ ic_out' = [fn |-> "calculate_input_hash", nan |-> FALSE,
                       value |-> SM_calculate_input_hash(d, inc)]
    /\ UNCHANGED <<node, order_vars, radix_vars, val_vars, epc_vars, aq_vars, pq_vars>>

HashEpcExecute ==
    /\ node = "epc"
    /\ \E t \in {T_two, T_rep}, kw \in EpcKwargs, si \in 0..MaxStart, mc \in 0..1,
          aq \in BOOLEAN, png \in PngInfos :
         \E r \in {EPC_execute_hashed(epc_state, epc_file,
                        EPC_calculate_input_hash_of(EPC_all_inputs(t, si, mc, aq, kw, png)),
                        EPC_pool_texts(kw), t, si, mc, aq, epc_out.tick)} :
            /\ epc_state' = r.state
            /\ epc_file' = r.file
            /\ epc_out' = r.out
            /\ host_in' = [fn |-> "epc_execute", args |-> <<t, si, mc, aq, kw, png>>,
                           delivery |-> "ok", storage |-> Storage(epc_file)]
    /\ UNCHANGED <<node, order_vars, ic_out, radix_vars, val_vars, aq_vars, pq_vars>>

NextHash == SmHash \/ HashEpcExecute \/ EpcInit

SpecHash == InitHash /\ [][NextHash]_vars

\* ------------------------------------------------------------------------
\* libs/template_processor.py: TemplateProcessor.replace_placeholders, and
\* the specification SpecSubst of the two substitution loops
\* ------------------------------------------------------------------------
\* replace_placeholders(template_text, anchor_numbers, local_indices,
\* valid_pools): final_text, or the re.error the loop raises
TP_replace_placeholders(template_text, anchor_numbers, local_indices, valid_pools) ==
    IF EPC_substitute_raises(local_indices, valid_pools)
    THEN [raised |-> TRUE, text |-> <<>>]
    ELSE [raised |-> FALSE,
          text |-> EPC_substitute(template_text, 1, local_indices, valid_pools,
                                  anchor_numbers)]

\* Pool 1 with the elements a\\b, c\( and \d
TextEscaped == << <<Lit("a"), Esc("\\"), Lit("b")>>, <<Lit("c"), Esc("(")>>, <<Esc("d")>> >>

K_escaped == <<TextEscaped, TextCat>>

SubstTemplates == {T_rep, T_pair, T_two}
SubstKwargs == {K_full, K_nested, K_escaped}

InitSubst ==
    \/ /\ node = "subst"
       /\ RadixIdle /\ ValIdle /\ EpcIdle /\ AqIdle /\ PqIdle /\ HostIdle
    \/ InitEPC

\* A caller of the library: validate, pick a combination, replace
TpReplace ==
    /\ node = "subst"
    /\ \E t \in SubstTemplates, kw \in SubstKwargs :
         LET v == TP_parse_and_validate_template(t, EPC_pool_texts(kw))
             sizes == EPC_pool_sizes(v.valid_pools)
         IN /\ v.raised = "none"
            /\ \E g \in 0..(Prod(sizes) - 1) :
                 LET local == get_mixed_radix_indices(g, sizes)
                 IN /\ host_in' = [fn |-> "replace_placeholders",
                                   args |-> <<t, v.used, local, v.valid_pools>>,
                                   delivery |-> "ok", storage |-> "none"]
                    /\ ic_out' = [fn |-> "replace_placeholders", nan |-> FALSE,
                                  value |-> TP_replace_placeholders(t, v.used, local,
                                                                    v.valid_pools)]
    /\ UNCHANGED <<node, order_vars, radix_vars, val_vars, epc_vars, aq_vars, pq_vars>>

SubstExecute ==
    /\ node = "epc"
    /\ \E t \in SubstTemplates, kw \in SubstKwargs, si \in 0..MaxPromptStart :
         \E r \in {EPC_execute(epc_state, epc_file, t, si, 0, FALSE, kw, epc_out.tick)} :
            /\ epc_state' = r.state
            /\ epc_file' = r.file
            /\ epc_out' = r.out
    /\ UNCHANGED <<node, order_vars, host_vars, radix_vars, val_vars, aq_vars, pq_vars>>

NextSubst == TpReplace \/ SubstExecute

SpecSubst == InitSubst /\ [][NextSubst]_vars

\* ------------------------------------------------------------------------
\* Claims about ExhaustivePromptCombinator.execute
\* ------------------------------------------------------------------------
\* This step is one call of execute
EpcExecStep == epc_out'.tick # epc_out.tick

\* This call of execute got the inputs of the call before it
EpcSameInputs ==
    /\ epc_out'.hash = epc_out.hash
    /\ epc_out'.start_index = epc_out.start_index
    /\ epc_out'.auto_queue = epc_out.auto_queue

HashTemplate(h) == h[1]
HashMax(h) == h[2]
HashPools(h) == h[3]

\* C1: when execute has emitted the combination at index i below the last
\* index of the effective limit and is called again with identical inputs,
\* the call emits the combination at index i + 1.
C1_SingleStepAdvance ==
    [][ ( /\ EpcExecStep
          /\ epc_out.path = "normal"
          /\ epc_out.index + 1 < epc_out.total
          /\ EpcSameInputs )
        => (epc_out'.path = "normal" /\ epc_out'.index = epc_out.index + 1) ]_vars

\* C2: when the last call of execute was the hard stop (it emitted the last
\* combination of the space; the record is saved with is_completed = true and
\* global_index = 0), the next call with the same fingerprint emits the
\* combination at index 0 as a normal result, and is_completed is false again
\* unless index 0 is itself the last combination.
C2_RestartAfterHardStop ==
    [][ ( /\ EpcExecStep
          /\ epc_out.path = "normal"
          /\ epc_out.index = epc_out.space - 1
          /\ epc_file = EPC_save_state(epc_state)
          /\ epc_state.is_completed /\ epc_state.global_index = 0
          /\ epc_out'.hash = epc_state.last_input_hash )
        => ( /\ epc_out'.path = "normal"
             /\ epc_out'.index = 0
             /\ (epc_out'.space > 1 => ~epc_state'.is_completed) ) ]_vars

\* The last call processed the last index the max_combinations ceiling allows,
\* the ceiling being below the size of the space
EpcStoppedAtCeiling ==
    /\ epc_out.path = "normal"
    /\ HashMax(epc_out.hash) > 0
    /\ HashMax(epc_out.hash) < epc_out.space
    /\ epc_out.index = HashMax(epc_out.hash) - 1

\* C3: after a call that processed the last index under a ceiling
\* 0 < max_combinations < space_size, the saved record has
\* global_index = max_combinations and is_completed = false.
C3_SoftStopKeepsIndex ==
    EpcStoppedAtCeiling
        => /\ epc_file.exists
           /\ epc_file.rec.global_index = HashMax(epc_out.hash)
           /\ ~epc_file.rec.is_completed

\* C4: after a call stopped at the ceiling, a call with the same template and
\* pools and a higher max_combinations emits the combination that follows the
\* last one emitted.
C4_HigherCeilingResumes ==
    [][ ( /\ EpcExecStep
          /\ EpcStoppedAtCeiling
          /\ HashTemplate(epc_out'.hash) = HashTemplate(epc_out.hash)
          /\ HashPools(epc_out'.hash) = HashPools(epc_out.hash)
          /\ HashMax(epc_out'.hash) > HashMax(epc_out.hash) )
        => (epc_out'.path = "normal" /\ epc_out'.index = epc_out.index + 1) ]_vars

\* C6: a call of execute that passed validation and ran with
\* global_index = effective_limit - 1 where effective_limit = space_size
\* emitted a combination (a normal result) and saved is_completed = true and
\* global_index = 0.
C6_LastCombinationEmitted ==
    ( /\ epc_out.path \in {"normal", "exhausted"}
      /\ epc_out.index = epc_out.total - 1
      /\ epc_out.total = epc_out.space )
        => /\ epc_out.path = "normal"
           /\ epc_file.exists
           /\ epc_file.rec.is_completed
           /\ epc_file.rec.global_index = 0

\* C9: a call of execute on a template without anchors found a space of
\* exactly 1 combination and returned the template unmodified.
C9_NoAnchorsSpaceOfOne ==
    ( /\ epc_out.path \in {"normal", "exhausted"}
      /\ FindAnchors(HashTemplate(epc_out.hash)) = <<>> )
        => /\ epc_out.space = 1
           /\ epc_out.total = 1
           /\ epc_out.prompt = HashTemplate(epc_out.hash)

\* ------------------------------------------------------------------------
\* Claims about the records the components write
\* ------------------------------------------------------------------------
CompletedAtZero(rec) == rec.is_completed => rec.global_index = 0

\* C5: every record written to disk by ExhaustivePromptCombinator.execute,
\* ComfyUIAutoQueue.process_queue or AutoQueueLoopController.execute (the
\* file each leaves and every record saved on the way) has
\* is_completed = true only together with global_index = 0.
C5_CompletedImpliesIndexZero ==
    /\ epc_file.exists => CompletedAtZero(epc_file.rec)
    /\ pq_file.exists => CompletedAtZero(pq_file.rec)
    /\ aq_file.exists => CompletedAtZero(aq_file.rec)
    /\ \A i \in DOMAIN aq_out.written : CompletedAtZero(aq_out.written[i])

\* AutoQueueLoopController.execute took its "complete" case on a prompt other
\* than the first and saved the record
C5_Witness ==
    /\ aq_out.path = "normal"
    /\ aq_out.index > 0
    /\ aq_file.exists
    /\ aq_file.rec.is_completed
    /\ aq_file.rec.global_index = 0

\* C11: a call of execute whose fingerprint differs from last_input_hash of
\* the record the node holds runs at the requested start_index with
\* is_completed = false, and the record holds the new fingerprint afterwards
\* (on disk too once the call saves), whatever index and flag the record held.
C11_HashChangeOverrides ==
    [][ (EpcExecStep /\ epc_out'.hash # epc_state.last_input_hash)
        => ( /\ epc_out'.index = epc_out'.start_index
             /\ ~epc_out'.completed
             /\ epc_state'.last_input_hash = epc_out'.hash
             /\ (epc_out'.writes > 0
                    => epc_file'.rec.last_input_hash = epc_out'.hash) ) ]_vars

\* A call with a changed fingerprint failed validation and saved nothing: the
\* file still shows the record in mid-sequence under the old fingerprint, the
\* node holds the new fingerprint at the requested start_index
C11_Witness ==
    /\ epc_out.path = "error"
    /\ epc_file.exists
    /\ epc_file.rec.last_input_hash # epc_out.hash
    /\ epc_file.rec.global_index > 0
    /\ epc_state.last_input_hash = epc_out.hash
    /\ epc_state.global_index = epc_out.start_index
    /\ epc_state.global_index # epc_file.rec.global_index
    /\ ~epc_state.is_completed

\* The inputs of the last call have an anchor whose pool is missing or empty
EpcInputsInvalid(out) ==
    BadAnchors([template |-> HashTemplate(out.hash), kwargs |-> HashPools(out.hash)]) # {}

\* C12: a call of execute whose template has an anchor with a missing or
\* empty pool returns the unchanged template with the error text, and the
\* file is exactly what it was before the call: nothing is written.
C12_ValidationFailureWritesNothing ==
    [][ (EpcExecStep /\ EpcInputsInvalid(epc_out'))
        => ( /\ epc_out'.path = "error"
             /\ epc_out'.prompt = HashTemplate(epc_out'.hash)
             /\ epc_out'.log = "error"
             /\ epc_out'.writes = 0
             /\ epc_file' = epc_file ) ]_vars

\* A call failed validation on a node whose record in mid-sequence is on
\* disk; the reset of step 1 changed the record in memory only
C12_Witness ==
    /\ epc_out.path = "error"
    /\ EpcInputsInvalid(epc_out)
    /\ epc_file.exists
    /\ epc_file.rec.global_index > 0
    /\ epc_state # epc_file.rec

\* This step is one call of process_queue
PqStep == pq_out'.tick # pq_out.tick

\* C13: a validated call of execute whose index is >= the effective limit, or
\* whose record has is_completed = true at step 4, saves is_completed = true
\* and global_index = 0, returns the terminal result with the exhausted
\* message and the unsubstituted template, and requests no continuation; a
\* call of process_queue with current_index >= total_items or a completed
\* record does the same.
C13_ExhaustedTransition ==
    [][ /\ ( ( /\ EpcExecStep
               /\ epc_out'.path \in {"normal", "exhausted"}
               /\ (epc_out'.index >= epc_out'.total \/ epc_out'.completed) )
             => ( /\ epc_out'.path = "exhausted"
                  /\ epc_out'.log = "exhausted"
                  /\ epc_out'.ret_len = 5
                  /\ epc_out'.prompt = HashTemplate(epc_out'.hash)
                  /\ ~epc_out'.queued
                  /\ epc_out'.writes = 1
                  /\ epc_file'.exists
                  /\ epc_file'.rec.is_completed
                  /\ epc_file'.rec.global_index = 0 ) )
        /\ ( ( /\ PqStep
               /\ (pq_out'.current_index >= pq_out'.total_items \/ pq_state.is_completed) )
             => ( /\ pq_out'.path = "stop"
                  /\ pq_out'.done
                  /\ pq_out'.next_index = 0
                  /\ ~pq_out'.queued
                  /\ pq_file'.exists
                  /\ pq_file'.rec.is_completed
                  /\ pq_file'.rec.global_index = 0 ) ) ]_vars

\* A call of execute ran at an index beyond a non-empty limit on a record
\* that was not completed, and took the exhausted transition
C13_Witness ==
    /\ epc_out.path = "exhausted"
    /\ ~epc_out.completed
    /\ epc_out.total > 0
    /\ epc_out.index >= epc_out.total
    /\ epc_file.rec.is_completed
    /\ epc_file.rec.global_index = 0

\* The queue signal of ExhaustivePromptCombinator.execute and of
\* process_queue is sent exactly when the call was not exhausted, auto_queue
\* is true and current_index < effective_limit - 1
QueueSignalEpcPq ==
    /\ epc_out.queued <=> ( /\ epc_out.path = "normal"
                            /\ epc_out.auto_queue
                            /\ epc_out.index < epc_out.total - 1 )
    /\ pq_out.queued <=> ( /\ pq_out.path = "step"
                           /\ pq_out.auto_queue
                           /\ pq_out.current_index < pq_out.total_items - 1 )

\* The step logic of AutoQueueLoopController returns 'continue' only on a
\* prompt that is not the last one under the limit
AqContinueBelowLimit ==
    aq_out.should_continue => (aq_out.path = "normal" /\ aq_out.index < aq_out.limit - 1)

C16_NoExceptionEscapes ==
    /\ val_out.fn = "pcg_execute" => val_out.raised = "none"
    /\ epc_out.path = "error" => (epc_out.log = "error" /\ epc_out.ret_len = 5)
    /\ aq_out.path = "bounds" => aq_out.prompt = <<>>

\* C17: one call of execute writes the persisted record at most once:
\* ExhaustivePromptCombinator.execute and AutoQueueLoopController.execute
\* write it exactly once when they return a prompt, and not at all when they
\* return early with an error (failed validation, index out of bounds).
C17_WrittenAtMostOnce ==
    /\ epc_out.writes <= 1
    /\ epc_out.path = "normal" => epc_out.writes = 1
    /\ epc_out.path = "error" => epc_out.writes = 0
    /\ Len(aq_out.written) <= 1
    /\ aq_out.path = "normal" => Len(aq_out.written) = 1
    /\ aq_out.path = "bounds" => Len(aq_out.written) = 0

\* ------------------------------------------------------------------------
\* Claims about the combination space and the prompt
\* ------------------------------------------------------------------------
\* The product of the sizes of the pools the template's anchor set names,
\* pool n read from pool_texts
ReferencedProduct(template, pool_texts) ==
    LET anchors == SortedAnchors(template)
    IN Prod([k \in 1..Len(anchors) |->
                Len(ParseLines(PoolTextGet(pool_texts, anchors[k])))])

\* C18: the combination space is the cartesian product of exactly the pools
\* the template's anchors name: the number of combinations found by
\* ExhaustivePromptCombinator.execute, and TOTAL_COUNT and the length of
\* COMBO_LIST returned by PromptCombinationGenerator.execute, are the product
\* of the sizes of those pools, whatever other non-empty pools are supplied.
C18_SpaceOfReferencedPools ==
    /\ epc_out.path \in {"normal", "exhausted"}
          => epc_out.space = ReferencedProduct(HashTemplate(epc_out.hash),
                                               HashPools(epc_out.hash))
    /\ (val_out.fn = "pcg_execute" /\ val_out.raised = "none")
          => /\ val_out.total_count = ReferencedProduct(val_in.template, val_in.kwargs)
             /\ Len(val_out.combo_list) = val_out.total_count

\* Every anchor of the template occurs once
AnchorsOnce(template) ==
    /\ FindAnchors(template) # <<>>
    /\ Len(FindAnchors(template)) = Cardinality(SeqToSet(FindAnchors(template)))

RECURSIVE Concat(_)
Concat(parts) == IF parts = <<>> THEN <<>> ELSE Head(parts) \o Concat(Tail(parts))

\* The template with each anchor [n_i] replaced by element l_i of pool n_i,
\* l the digits of g over the referenced pools in ascending anchor order
\* (the first pool the most significant)
ExpectedPrompt(template, pool_texts, g) ==
    LET anchors == SortedAnchors(template)
        pools == [k \in 1..Len(anchors) |-> ParseLines(PoolTextGet(pool_texts, anchors[k]))]
        sizes == [k \in 1..Len(anchors) |-> Len(pools[k])]
        l == CHOOSE d \in LocalVectors(sizes) : Recompose(d, sizes) = g
        pos(n) == CHOOSE k \in 1..Len(anchors) : anchors[k] = n
    IN Concat([i \in 1..Len(template) |->
                 IF IsAnchor(template[i])
                 THEN pools[pos(template[i].a)][l[pos(template[i].a)] + 1]
                 ELSE <<template[i]>>])

P_cat_red == <<Lit("a"), Blank, Lit("cat"), Blank, Lit("and"), Blank, Lit("red")>>
P_dog_blue == <<Lit("a"), Blank, Lit("dog"), Blank, Lit("and"), Blank, Lit("blue")>>

\* C19: a call of execute that returns a prompt for a template in which every
\* anchor occurs once returns the template with each anchor replaced by the
\* element its mixed-radix digit selects from its pool; for 'a [1] and [2]'
\* with the pools [cat, dog] and [red, blue] the total is 4, index 0 gives
\* 'a cat and red' and index 3 gives 'a dog and blue'.
C19_PromptAtIndex ==
    /\ ( epc_out.path = "normal" /\ AnchorsOnce(HashTemplate(epc_out.hash)) )
          => epc_out.prompt = ExpectedPrompt(HashTemplate(epc_out.hash),
                                             HashPools(epc_out.hash), epc_out.index)
    /\ ( /\ epc_out.path = "normal"
          /\ epc_out.hash = EPC_calculate_input_hash(T_two, 0, EPC_pool_texts(K_full)) )
          => /\ epc_out.total = 4
             /\ epc_out.index = 0 => epc_out.prompt = P_cat_red
             /\ epc_out.index = 3 => epc_out.prompt = P_dog_blue

\* ------------------------------------------------------------------------
\* Claims about AutoQueueLoopController.execute
\* ------------------------------------------------------------------------
\* C20: a call of AutoQueueLoopController.execute whose determined index is
\* not below the length of COMBO_LIST returns the empty prompt and the error
\* log, and sends no queue signal.
C20_OutOfBoundsReturnsError ==
    (aq_out.path # "none" /\ aq_out.index >= aq_out.list_len)
        => /\ aq_out.prompt = <<>>
           /\ aq_out.log = "error"
           /\ ~aq_out.queued
           /\ ~aq_out.should_continue

\* The server is there, the list is not empty and the index is past its end
C20_Witness ==
    /\ aq_server
    /\ aq_out.path = "bounds"
    /\ aq_out.list_len > 0
    /\ aq_out.index >= aq_out.list_len
    /\ aq_out.prompt = <<>>

\* ------------------------------------------------------------------------
\* Claims about the re-run predicates
\* ------------------------------------------------------------------------
\* This step is one call of a re-run predicate
IcStep == host_in' # host_in \/ ic_out' # ic_out

\* No record, in memory or on disk, changed and no result of an execution
\* (with its signal) appeared
IcFrame == UNCHANGED <<epc_state, epc_file, epc_out, aq_file, aq_out, pq_vars>>

\* AutoQueueLoopController.IS_CHANGED returned NaN, and otherwise a value made
\* of CONFIG_HASH alone, as the rule "force" says
AqReturnedBy(force, out, in) ==
    IF force THEN out.nan
    ELSE ~out.nan /\ out.value = <<"hash", in.args[2]>>

\* C21 as stated: a call of a re-run predicate changes no record and sends
\* nothing, and AutoQueueLoopController.IS_CHANGED returns NaN exactly when
\* the file is missing or unreadable, or the record is not completed and its
\* global_index is below min(MAX_ITERATION_LIMIT, TOTAL_COUNT); otherwise it
\* returns a value that depends only on CONFIG_HASH.
C21_IsChangedExactly ==
    [][ IcStep =>
          /\ IcFrame
          /\ host_in'.fn = "aq_is_changed" =>
                AqReturnedBy(
                    \/ ~aq_file.exists
                    \/ ~aq_file.readable
                    \/ /\ ~aq_file.rec.is_completed
                       /\ aq_file.rec.global_index
                             < Min(host_in'.args[3], host_in'.args[1]),
                    ic_out', host_in') ]_vars

\* C21 amended: as stated, with one more case of NaN: MAX_ITERATION_LIMIT or
\* TOTAL_COUNT is None (and the file can be read).
C21_IsChangedWithNone ==
    [][ IcStep =>
          /\ IcFrame
          /\ host_in'.fn = "aq_is_changed" =>
                AqReturnedBy(
                    \/ ~aq_file.exists
                    \/ ~aq_file.readable
                    \/ host_in'.args[3] = NoneInt
                    \/ host_in'.args[1] = NoneInt
                    \/ /\ ~aq_file.rec.is_completed
                       /\ aq_file.rec.global_index
                             < Min(host_in'.args[3], host_in'.args[1]),
                    ic_out', host_in') ]_vars

\* IS_CHANGED read a completed record and returned the value of CONFIG_HASH
C21_Witness ==
    /\ host_in.fn = "aq_is_changed"
    /\ aq_file.exists /\ aq_file.readable /\ aq_file.rec.is_completed
    /\ host_in.args[1] # NoneInt /\ host_in.args[3] # NoneInt
    /\ ~ic_out.nan
    /\ ic_out.value = <<"hash", host_in.args[2]>>

\* ------------------------------------------------------------------------
\* Claims about the sink and the storage
\* ------------------------------------------------------------------------
\* This step is one call the host made with arguments and a sink
HostCall(fn) ==
    /\ host_in'.fn = fn
    /\ \/ epc_out'.tick # epc_out.tick
       \/ aq_out'.tick # aq_out.tick
       \/ pq_out'.tick # pq_out.tick

NotLoadable(file) == ~(file.exists /\ file.readable)

\* The three fields of the default record
IsDefaultRecord(rec) ==
    /\ rec.global_index = 0
    /\ rec.last_input_hash = ""
    /\ rec.is_completed = FALSE

\* The record in memory is the one __init__ loaded: no call came since
JustLoaded == host_in.fn \in {"none", "epc_init", "pq_init"}

\* C23: loading a state file that is missing or unreadable gives the default
\* record (global_index 0, last_input_hash "", is_completed false), and the
\* call that follows returns and records what the same call does on a
\* first-ever run, with no file and the default record.
C23_UnloadableIsFirstRun ==
    [][ /\ (node = "epc" /\ NotLoadable(epc_file) /\ JustLoaded) =>
            /\ IsDefaultRecord(epc_state)
            /\ HostCall("epc_execute") =>
                 LET a == host_in'.args
                     r == EPC_execute_sink(DefaultState, NoFile, a[1], a[2], a[3], a[4],
                                           a[5], epc_out.tick, host_in'.delivery)
                 IN /\ epc_state' = r.state
                    /\ epc_out' = r.out
                    /\ epc_file' = IF r.file = NoFile THEN epc_file ELSE r.file
        /\ (node = "aq" /\ NotLoadable(aq_file)) =>
            /\ IsDefaultRecord(AQ_load_state(aq_file))
            /\ HostCall("aq_execute") =>
                 LET a == host_in'.args
                     r == AQ_execute_sink(aq_server, NoAqFile, ComboList(a[1]), a[2], a[3],
                                          a[4], a[5], a[6], aq_out.tick, host_in'.delivery)
                 IN /\ aq_out' = r.out
                    /\ aq_file' = IF r.file = NoAqFile THEN aq_file ELSE r.file
        /\ (node = "pq" /\ NotLoadable(pq_file) /\ JustLoaded) =>
            /\ IsDefaultRecord(pq_state)
            /\ HostCall("process_queue") =>
                 LET a == host_in'.args
                     r == PQ_process_queue_sink(DefaultState, a[1], a[2], a[3], a[4],
                                                pq_out.tick, host_in'.delivery)
                 IN /\ pq_state' = r.state
                    /\ pq_out' = r.out
                    /\ pq_file' = r.file ]_vars

\* ExhaustivePromptCombinator.execute ran on a state file that could not be
\* read, resolved combination 0 and replaced the file with a readable one
C23_Witness ==
    /\ host_in.fn = "epc_execute"
    /\ host_in.args[2] = 0
    /\ epc_out.path = "normal"
    /\ epc_out.index = 0
    /\ host_in.storage = "unreadable"
    /\ epc_out.writes = 1
    /\ epc_file.readable
    /\ epc_state.global_index = 1

\* ------------------------------------------------------------------------
\* Further claims about ExhaustivePromptCombinator.execute
\* ------------------------------------------------------------------------
\* The call of this step reached step 5, _get_mixed_radix_indices
EpcReachedRadix == EpcExecStep /\ epc_out'.path = "normal"

\* C24: whenever execute reaches _get_mixed_radix_indices, the index it
\* passes is at least 0 and below the product of the pool sizes it passes,
\* which are the sizes of the pools the template references, each at least 1.
C24_RadixCalledInRange ==
    [][ EpcReachedRadix =>
          LET sizes == epc_out'.sizes
              h == epc_out'.hash
              anchors == SortedAnchors(HashTemplate(h))
          IN /\ 0 <= epc_out'.index
             /\ epc_out'.index < Prod(sizes)
             /\ \A k \in 1..Len(sizes) : sizes[k] >= 1
             /\ Len(sizes) = Len(anchors)
             /\ \A k \in 1..Len(sizes) :
                   sizes[k] = Len(ParseLines(PoolTextGet(HashPools(h), anchors[k]))) ]_vars

\* execute decomposed the last index of a space of two pools of two
C24_Witness ==
    /\ epc_out.path = "normal"
    /\ epc_out.sizes = <<2, 2>>
    /\ epc_out.index = 3

\* C25: the effective limit of execute is
\* min(max_combinations if max_combinations > 0 else space_size, space_size),
\* space_size the product of the sizes of the pools the template references:
\* max_combinations = 0 is unlimited, a ceiling above space_size has no effect.
C25_EffectiveLimit ==
    epc_out.path \in {"normal", "exhausted"} =>
        LET space_size == ReferencedProduct(HashTemplate(epc_out.hash),
                                            HashPools(epc_out.hash))
            max_combinations == HashMax(epc_out.hash)
            ceiling == IF max_combinations > 0 THEN max_combinations ELSE space_size
        IN epc_out.total = IF ceiling < space_size THEN ceiling ELSE space_size

\* ------------------------------------------------------------------------
\* Claims about the fingerprint
\* ------------------------------------------------------------------------
\* This step is a call of calculate_input_hash that follows another one
HashAfterHash ==
    /\ host_in.fn = "calculate_input_hash"
    /\ host_in'.fn = "calculate_input_hash"

\* C26: two calls of StateManager.calculate_input_hash whose dictionaries
\* hold the same key/value pairs, inserted in whatever orders, return the
\* same hash.
C26_HashOrderStable ==
    [][ ( /\ HashAfterHash
          /\ SeqToSet(host_in'.args[1]) = SeqToSet(host_in.args[1])
          /\ host_in'.args[2] = host_in.args[2] )
        => ic_out'.value = ic_out.value ]_vars

\* calculate_input_hash was given three items inserted against the order of
\* their keys and hashed them in the order of their keys
C26_Witness ==
    /\ host_in.fn = "calculate_input_hash"
    /\ host_in.args[2] = NoKeys
    /\ host_in.args[1] = << <<"template_text", PyStr("a")>>, <<"start_index", PyInt(1)>>,
                            <<"max_combinations", PyInt(1)>> >>
    /\ ic_out.value = md5(<<"max_combinations", ":", "1", "|", "template_text", ":", "a">>)

\* The control fields the claim names
ControlFields == {"start_index", "auto_queue", "extra_pnginfo"}

\* The items of a dictionary that are not control fields
ContentItems(d) == {item \in SeqToSet(d) : item[1] \notin ControlFields}

\* Two consecutive calls of calculate_input_hash, alike in include_keys, whose
\* dictionaries differ in control fields only
HashCallsDifferInControl ==
    /\ HashAfterHash
    /\ host_in'.args[2] = host_in.args[2]
    /\ ContentItems(host_in'.args[1]) = ContentItems(host_in.args[1])

\* Two consecutive calls of execute whose inputs differ in start_index,
\* auto_queue and extra_pnginfo only
ExecCallsDifferInControl ==
    /\ host_in.fn = "epc_execute"
    /\ HostCall("epc_execute")
    /\ host_in'.args[1] = host_in.args[1]
    /\ host_in'.args[3] = host_in.args[3]
    /\ host_in'.args[5] = host_in.args[5]

\* Step 1 of execute found a fingerprint other than the recorded one
FreshStart == epc_out'.hash # epc_state.last_input_hash

\* What ExhaustivePromptCombinator._calculate_input_hash owes the claim: the
\* same fingerprint, and no fresh start when the record holds the fingerprint
\* of the call before
ExecIgnoresControl ==
    ExecCallsDifferInControl =>
        /\ epc_out'.hash = epc_out.hash
        /\ epc_state.last_input_hash = epc_out.hash => ~FreshStart

\* C27 as stated: two input sets that differ only in start_index, auto_queue
\* or extra_pnginfo get the same fingerprint from
\* StateManager.calculate_input_hash, whatever its include_keys, and from
\* ExhaustivePromptCombinator._calculate_input_hash, where the change
\* triggers no fresh start.
C27_ControlFieldsIgnored ==
    [][ /\ HashCallsDifferInControl => ic_out'.value = ic_out.value
        /\ ExecIgnoresControl ]_vars

\* C27, amended: the same, for calculate_input_hash called without
\* include_keys or with include_keys that name no control field.
C27_ControlFieldsIgnoredByDefault ==
    [][ /\ ( /\ HashCallsDifferInControl
              /\ SeqToSet(host_in'.args[2]) \cap ControlFields = {} )
            => ic_out'.value = ic_out.value
        /\ ExecIgnoresControl ]_vars

\* calculate_input_hash, called without include_keys on a dictionary that
\* holds the three control fields, hashed the template alone
C27_Witness ==
    /\ host_in.fn = "calculate_input_hash"
    /\ host_in.args[2] = NoKeys
    /\ DictKeys(host_in.args[1]) = ControlFields \cup {"template_text"}
    /\ ic_out.value = md5(<<"template_text", ":", "a">>)

\* ------------------------------------------------------------------------
\* Claims about the substitution
\* ------------------------------------------------------------------------
\* The text with its first occurrence of [n] replaced by the element itself
PutAtFirst(text, n, element) ==
    IF Anchor(n) \notin SeqToSet(text) THEN text
    ELSE LET i == CHOOSE i \in 1..Len(text) :
                    /\ text[i] = Anchor(n)
                    /\ \A j \in 1..(i - 1) : text[j] # Anchor(n)
         IN SubSeq(text, 1, i - 1) \o element \o SubSeq(text, i + 1, Len(text))

\* For each anchor in turn, the first remaining occurrence replaced in the
\* text as the anchors before it left it
RECURSIVE FirstOccurrenceSubst(_, _, _)
FirstOccurrenceSubst(text, anchors, elements) ==
    IF anchors = <<>> THEN text
    ELSE FirstOccurrenceSubst(PutAtFirst(text, Head(anchors), Head(elements)),
                              Tail(anchors), Tail(elements))

\* The elements combination g selects from the pools the template references
SelectedElements(template, pool_texts, g) ==
    LET anchors == SortedAnchors(template)
        pools == [k \in 1..Len(anchors) |-> ParseLines(PoolTextGet(pool_texts, anchors[k]))]
        sizes == [k \in 1..Len(anchors) |-> Len(pools[k])]
        l == CHOOSE d \in LocalVectors(sizes) : Recompose(d, sizes) = g
    IN [k \in 1..Len(anchors) |-> pools[k][l[k] + 1]]

\* C28: the substitution replaces, for each anchor of the anchor set in
\* ascending order, exactly the first remaining occurrence of [n] in the
\* progressively mutated template with the selected pool element, and leaves
\* every further occurrence of the anchor in the output: in execute, whenever
\* it reaches the substitution, and in replace_placeholders.
C28_FirstOccurrenceReplaced ==
    /\ epc_out.path \in {"normal", "raised"} =>
         /\ epc_out.path = "normal"
         /\ epc_out.prompt =
              FirstOccurrenceSubst(HashTemplate(epc_out.hash),
                                   SortedAnchors(HashTemplate(epc_out.hash)),
                                   SelectedElements(HashTemplate(epc_out.hash),
                                                    HashPools(epc_out.hash),
                                                    epc_out.index))
    /\ ic_out.fn = "replace_placeholders" =>
         LET a == host_in.args
         IN /\ ~ic_out.value.raised
            /\ ic_out.value.text =
                 FirstOccurrenceSubst(a[1], a[2],
                                      [k \in 1..Len(a[3]) |-> a[4][k][a[3][k] + 1]])

\* ------------------------------------------------------------------------
\* Claims about the values returned
\* ------------------------------------------------------------------------
\* C29: execute returns a pair (resolved_prompt, log) on every path: the
\* tuple returned on the normal path, on the validation-error path and on the
\* exhausted path has exactly two elements.
C29_ReturnsPair ==
    epc_out.path \in {"normal", "error", "exhausted"} => epc_out.ret_len = 2

\* ------------------------------------------------------------------------
\* Claims about AutoQueueLoopController._determine_index_and_reset
\* ------------------------------------------------------------------------
\* C30: on the first execution of a workflow run (workflow_started false or
\* CONFIG_HASH different from last_input_hash) execute runs at the index the
\* mode picks: 0 for 'From Start', START_INDEX for 'Specified', and for
\* 'Auto' 0 when the hash changed or the record is completed and the
\* persisted global_index otherwise; in the reset cases the record saved has
\* that index, is_completed = false and last_input_hash = CONFIG_HASH.
C30_FirstExecutionIndexByMode ==
    [][ HostCall("aq_execute") =>
          LET a == host_in'.args
              CONFIG_HASH == a[3]
              INDEX_MODE == a[4]
              START_INDEX == a[5]
              st == AQ_load_state(aq_file)
              changed == st.last_input_hash # CONFIG_HASH
              first == ~st.workflow_started \/ changed
              reset == INDEX_MODE \in {"From Start", "Specified"}
                          \/ changed \/ st.is_completed
              picked == IF INDEX_MODE = "From Start" THEN 0
                        ELSE IF INDEX_MODE = "Specified" THEN START_INDEX
                        ELSE IF changed \/ st.is_completed THEN 0
                        ELSE st.global_index
          IN first =>
               /\ aq_out'.index = picked
               /\ reset =>
                    /\ aq_out'.written # <<>>
                    /\ aq_out'.written[1].global_index = picked
                    /\ aq_out'.written[1].is_completed = FALSE
                    /\ aq_out'.written[1].last_input_hash = CONFIG_HASH ]_vars

\* A run in mode 'Auto' resumed at the persisted index 1: the record saved at
\* the start of the run holds it, with the mode
C30_Witness ==
    /\ host_in.fn = "aq_execute"
    /\ host_in.args[4] = "Auto"
    /\ aq_out.index = 1
    /\ Len(aq_out.written) = 2
    /\ aq_out.written[1].global_index = 1
    /\ aq_out.written[1].last_mode = "Auto"
    /\ aq_out.written[1].is_completed = FALSE

\* The record on disk shows a run in progress under this CONFIG_HASH
AqInProgress(file, CONFIG_HASH) ==
    /\ AQ_load_state(file).workflow_started
    /\ AQ_load_state(file).last_input_hash = CONFIG_HASH

\* C31: while a workflow run is in progress (workflow_started true and
\* CONFIG_HASH equal to last_input_hash), a call of execute uses the persisted
\* global_index, and the same call with any other INDEX_MODE and START_INDEX
\* uses the same index, returns the same prompt and persists the same record.
C31_ModeIgnoredInProgress ==
    [][ ( /\ HostCall("aq_execute")
          /\ AqInProgress(aq_file, host_in'.args[3]) ) =>
          LET a == host_in'.args
          IN /\ aq_out'.index = AQ_load_state(aq_file).global_index
             /\ \A mode \in AqModes, si \in 0..MaxStart :
                   LET r == AQ_execute(aq_server, aq_file, ComboList(a[1]), a[2], a[3],
                                       mode, si, a[6], aq_out.tick)
                   IN /\ r.out.index = aq_out'.index
                      /\ r.out.prompt = aq_out'.prompt
                      /\ r.out = aq_out'
                      /\ r.file = aq_file' ]_vars

\* A call in mode 'Specified' with START_INDEX 0 ran at the persisted index 1
\* of the run in progress and saved the record once, after the step
C31_Witness ==
    /\ host_in.fn = "aq_execute"
    /\ host_in.args[4] = "Specified"
    /\ host_in.args[5] = 0
    /\ aq_out.path = "normal"
    /\ aq_out.index = 1
    /\ Len(aq_out.written) = 1


\* The observation and the file an execution leaves when it stops at the
\* iteration limit before the end of the list
AqSoftStopped(out, file, TOTAL_COUNT) ==
    /\ out.path = "normal"
    /\ out.index = out.limit - 1
    /\ out.index # TOTAL_COUNT - 1

\* C32: soft stop and resume of AutoQueueLoopController.  An execution whose
\* index reaches min(MAX_ITERATION_LIMIT, TOTAL_COUNT) - 1 but not
\* TOTAL_COUNT - 1 persists global_index = index + 1, is_completed = FALSE,
\* workflow_started = FALSE and requests no continuation; the next "Auto"
\* execution with the same CONFIG_HASH continues from the persisted index
\* instead of restarting at 0.
C32_SoftStopAndResume ==
    [][ /\ ( /\ HostCall("aq_execute")
             /\ AqSoftStopped(aq_out', aq_file', host_in'.args[2]) ) =>
             /\ aq_file'.exists /\ aq_file'.readable
             /\ aq_file'.rec.global_index = aq_out'.index + 1
             /\ aq_file'.rec.is_completed = FALSE
             /\ aq_file'.rec.workflow_started = FALSE
             /\ aq_out'.should_continue = FALSE
             /\ aq_out'.queued = FALSE
        /\ ( /\ HostCall("aq_execute")
             /\ host_in.fn = "aq_execute"
             /\ AqSoftStopped(aq_out, aq_file, host_in.args[2])
             /\ host_in'.args[4] = "Auto"
             /\ host_in'.args[3] = host_in.args[3] ) =>
             /\ aq_out'.index = aq_file.rec.global_index
             /\ aq_out'.index = aq_out.index + 1
             /\ aq_out'.index # 0 ]_vars

\* An "Auto" execution resumed at index 1 with the server present, right
\* after a soft stop at index 0
C32_Witness ==
    /\ host_in.fn = "aq_execute"
    /\ host_in.args[4] = "Auto"
    /\ aq_server
    /\ aq_out.path = "normal"
    /\ aq_out.index = 1
    /\ aq_out.limit = 1
    /\ Len(aq_out.written) = 2
    /\ aq_out.written[1].last_mode = "Auto"
    /\ aq_out.written[1].global_index = 1
    /\ aq_out.written[1].workflow_started
    /\ ~aq_out.written[1].is_completed


\* C33: auto-continuation of ExhaustivePromptCombinator terminates.  When the
\* host executes the node again with the same inputs after every queue
\* signal, an execution without a queue signal is among the first
\* effective_limit executions: an execution that still sends the signal is
\* one of the first effective_limit - 1.
C33_EpcLoopTerminates ==
    (host_in.fn = "epc_loop" /\ epc_out.queued) => LoopRuns < epc_out.total

C35_PromptWithinCeiling ==
    (host_in.fn = "aq_execute" /\ aq_out.path = "normal") =>
        /\ aq_out.prompt = ComboList(host_in.args[1])[aq_out.index + 1]
        /\ aq_out.index < Min(host_in.args[6], host_in.args[2])


\* C36: an execution of AutoQueueLoopController.execute that ends with the
\* index-out-of-bounds error leaves the persisted record exactly as it was
\* before the execution (so that a later execution with an in-range
\* configuration finds what it would have found without the failed one).
C36_BoundsErrorKeepsRecord ==
    [][ (HostCall("aq_execute") /\ aq_out'.path = "bounds") =>
            /\ aq_file' = aq_file
            /\ AQ_load_state(aq_file') = AQ_load_state(aq_file) ]_vars


\* The queue signal is sent in this step
SignalSent == Len(sig') > Len(sig)

C38_IsChangedFollowsDecision ==
    (host_in.fn = "aq_execute" /\ ic_out.fn = "aq") =>
        /\ aq_out.queued => ic_out.nan
        /\ (aq_out.path = "normal" /\ ~aq_out.should_continue) =>
               ic_out = [Value(<<"hash", host_in.args[3]>>) EXCEPT !.fn = "aq"]

\* IS_CHANGED asked after a soft stop at index 0: the record holds index 1 and
\* no completion
C38_Witness ==
    /\ host_in.fn = "aq_execute"
    /\ ic_out.fn = "aq"
    /\ ~ic_out.nan
    /\ aq_out.path = "normal"
    /\ aq_out.index = 0
    /\ ~aq_out.should_continue
    /\ aq_file.rec.global_index = 1
    /\ ~aq_file.rec.is_completed


\* What ExhaustivePromptCombinator.execute returns at global index g: a node
\* without a record, executed with start_index = g and no ceiling
EngineAt(template, kwargs, g) ==
    EPC_execute(DefaultState, NoFile, template, g, 0, FALSE, kwargs, 0).out

\* Each anchor of the template occurs exactly once, every supplied pool that
\* is not empty is referenced, and the engine accepts the template
OnceAndAllReferenced(template, kwargs) ==
    LET anchors == FindAnchors(template)
    IN /\ \A i, j \in 1..Len(anchors) : anchors[i] = anchors[j] => i = j
       /\ \A n \in DOMAIN kwargs : ~TextIsBlank(kwargs[n]) => n \in SeqToSet(anchors)
       /\ EPC_parse_and_validate_template(template, EPC_pool_texts(kwargs)).raised = "none"

\* C39: the precomputed-list variant agrees with the on-the-fly engine.  For
\* every template in which each anchor occurs exactly once and every supplied
\* non-empty pool is referenced, PromptCombinationGenerator.execute returns
\* TOTAL_COUNT equal to the engine's space size and COMBO_LIST[g] equal to the
\* string ExhaustivePromptCombinator resolves at global index g, for every g
\* in [0, TOTAL_COUNT).
C39_ListAgreesWithEngine ==
    ( /\ val_out.fn = "pcg_execute"
      /\ OnceAndAllReferenced(val_in.template, val_in.kwargs) ) =>
        /\ val_out.raised = "none"
        /\ val_out.total_count = EngineAt(val_in.template, val_in.kwargs, 0).space
        /\ \A g \in 0..(val_out.total_count - 1) :
              /\ EngineAt(val_in.template, val_in.kwargs, g).path = "normal"
              /\ val_out.combo_list[g + 1] = EngineAt(val_in.template, val_in.kwargs, g).prompt


\* The elements of the input named pool_n: its non-blank lines, stripped
OwnElements(kwargs, n) ==
    IF n \in DOMAIN kwargs THEN SeqToSet(ParseLines(kwargs[n])) ELSE {}

\* The strings a template gives when any of its anchors [n] is replaced by
\* an element of pool_n and the others are left as they are
RECURSIVE FilledFromOwnPools(_, _)
FilledFromOwnPools(text, kwargs) ==
    IF text = <<>> THEN {<<>>}
    ELSE LET rest == FilledFromOwnPools(Tail(text), kwargs)
             heads == IF IsAnchor(Head(text))
                      THEN {<<Head(text)>>} \cup OwnElements(kwargs, Head(text).a)
                      ELSE {<<Head(text)>>}
         IN {h \o r : h \in heads, r \in rest}

\* C40: in PromptCombinationGenerator.execute anchor [n] is only ever replaced
\* by elements of the input named pool_n, whichever of pool_1..pool_15 are
\* connected (also when a lower-numbered pool is not supplied at all): every
\* prompt of COMBO_LIST is the template with anchors replaced from their own
\* pools.
C40_AnchorReplacedFromOwnPool ==
    (val_out.fn = "pcg_execute" /\ val_out.raised = "none") =>
        \A c \in 1..Len(val_out.combo_list) :
            val_out.combo_list[c] \in FilledFromOwnPools(val_in.template, val_in.kwargs)

====
